---- MODULE Spec2Model ----
(***************************************************************************)
(* Model of the git-annex special remote for Dataverse (datalad-dataverse) *)
(*                                                                         *)
(*   - OnlineDataverseDataset   (dataset.py): the cache of file records    *)
(*   - DataverseRemote          (baseremote.py): the regular-mode verbs    *)
(*   - the Dataverse dataset on the server, as far as the requests of the  *)
(*     two classes observe it (versions, draft, file ids)                  *)
(*                                                                         *)
(* Spec: one repository writes to the dataset, whose DRAFT is published    *)
(* between two processes of the remote.  SpecShared: other writers replace *)
(* or move files of the dataset as well.  SpecDataset: a program calls the *)
(* operations of OnlineDataverseDataset itself.  SpecExport: the export    *)
(* mode verbs of remote.py.                                                *)
(*                                                                         *)
(* One action per verb handler.  A handler is a sequential Python method;  *)
(* it is written as a chain of operators over a record W ("world") that    *)
(* holds the server, the object attributes, the host's per-key state, the  *)
(* log of HTTP requests of the running handler and the pending exception.  *)
(***************************************************************************)
EXTENDS Integers, Sequences, FiniteSets, TLC

\* ------------------------------------------------------------------ bounds
NumKeys == 2
MaxFileId == 3
MaxReleases == 2

\* ------------------------------------------------------- program constants
\* sys.maxsize, the stand-in of the sort key for a missing version number
\* (the largest integer TLC represents; only its order matters)
maxsize == 2147483647

Keys == 1..NumKeys
FileIds == 1..MaxFileId

\* Python's None for an integer-valued result or field
None == -1

VARIABLES
    released,            \* server: released versions, oldest first
    draft,               \* server: file entries of the DRAFT version
    has_draft,           \* server: whether a DRAFT version exists
    next_id,             \* server: next database file id
    file_records,        \* OnlineDataverseDataset._file_records
    knows_all_versions,  \* OnlineDataverseDataset._knows_all_versions
    annex_state,         \* host: per-key state (getstate/setstate)
    verb,                \* the verb handled last
    key,                 \* its key
    had,                 \* the ids bound to its key when it started
    same_content,        \* STORE: local content equals the content on file
    answer,              \* its answer to the host
    exc,                 \* the exception that ended the handler
    requests,            \* the HTTP requests of the handler, in order
    s1,                  \* position in the round trip STORE..CHECKPRESENT
    call,                \* the last call of an OnlineDataverseDataset method
    files_latest,        \* remote.py: DataverseRemote._files_latest
    files_old,           \* remote.py: DataverseRemote._files_old
    remote_file,         \* export verb: its remote_file (filename) argument
    new_filename,        \* RENAMEEXPORT: its new_filename argument
    moved,               \* position in the export of a key and its rename
    prep,                \* prepare(): its inputs, its position, its effects
    codec,               \* utils.py path codec: a path and its conversions
    doi,                 \* utils.py format_doi: an input and its results
    keystate,            \* host: the per-key state strings, and the last call
    procs,               \* two remote processes on one dataset
    pair                 \* two runs of one remote, one of them with more
                         \* CHECKPRESENT verbs

vars == <<released, draft, has_draft, next_id, file_records,
          knows_all_versions, annex_state, verb, key, had, same_content,
          answer, exc, requests, s1, call,
          files_latest, files_old, remote_file, new_filename, moved,
          prep, codec, doi, keystate, procs, pair>>

exportVars == <<files_latest, files_old, remote_file, new_filename, moved>>

\* the variables of the parts that the remotes do not touch
otherVars == <<prep, codec, doi, keystate, procs, pair>>

\* =========================================================================
\* Paths
\* =========================================================================

\* a remote that keeps the files of all keys at one path
get_remotepath_for_key_shared(k) == 1 + 0 * k

\* annex/<dirhash-lower>/<key>: one local path per key
get_remotepath_for_key(k) == k

\* The codec rewrites a path into the form stored in directoryLabel/label;
\* the mangled form of a path differs from the path (the key's "-" is always
\* escaped) and distinct paths stay distinct.
ODD_mangle_path(p) == 10 + p

\* Dataverse does not allow two files at one path in a version: an upload to
\* a (mangled) path that is taken is stored under a changed label
SrvRenamedPath(p) == 10 + p

\* =========================================================================
\* The Dataverse dataset on the server
\* =========================================================================

DraftVersion(W) ==
    [versionNumber |-> None, versionMinorNumber |-> None,
     versionState |-> "DRAFT", files |-> W.draft]

\* the version that get_dataset(version=":latest") returns
SrvLatestVersion(W) ==
    IF W.has_draft THEN DraftVersion(W) ELSE W.released[Len(W.released)]

RECURSIVE Reverse(_)
Reverse(s) == IF s = <<>> THEN <<>> ELSE Append(Reverse(Tail(s)), Head(s))

\* the list that get_dataset_versions returns: newest first
SrvVersionListing(W) ==
    (IF W.has_draft THEN <<DraftVersion(W)>> ELSE <<>>) \o Reverse(W.released)

FilesHaveId(files, fid) == \E i \in 1..Len(files) : files[i].id = fid
FilesHavePath(files, p) == \E i \in 1..Len(files) : files[i].path = p
FilesWithout(files, fid) == SelectSeq(files, LAMBDA f : f.id # fid)

\* a file id that is part of some version of the dataset
SrvHasFile(W, fid) ==
    \/ W.has_draft /\ FilesHaveId(W.draft, fid)
    \/ \E i \in 1..Len(W.released) : FilesHaveId(W.released[i].files, fid)

SrvIsReleased(W, fid) ==
    \E i \in 1..Len(W.released) : FilesHaveId(W.released[i].files, fid)

\* Every change goes into the DRAFT, which is created from the latest
\* released version when there is none.
SrvEditDraft(W, files) == [W EXCEPT !.draft = files, !.has_draft = TRUE]

SrvDelete(W, fid) ==
    SrvEditDraft(W, FilesWithout(SrvLatestVersion(W).files, fid))

\* the file entry the server creates for an upload to path p
SrvNewEntry(W, files, p) ==
    [id |-> W.next_id,
     path |-> IF FilesHavePath(files, p) THEN SrvRenamedPath(p) ELSE p]

SrvUpload(W, p) ==
    LET files == SrvLatestVersion(W).files
    IN  [SrvEditDraft(W, Append(files, SrvNewEntry(W, files, p)))
            EXCEPT !.next_id = @ + 1]

SrvReplace(W, old, p) ==
    LET files == FilesWithout(SrvLatestVersion(W).files, old)
    IN  [SrvEditDraft(W, Append(files, SrvNewEntry(W, files, p)))
            EXCEPT !.next_id = @ + 1]

\* the file keeps its id and gets the label p in the DRAFT
SrvRename(W, fid, p) ==
    LET files == SrvLatestVersion(W).files
    IN  SrvEditDraft(W, [i \in 1..Len(files) |->
                            IF files[i].id = fid
                            THEN [files[i] EXCEPT !.path = p]
                            ELSE files[i]])

\* the label of an upload is changed once; the model stops where a second
\* change would be needed
SrvOutOfLabels(W, old, p) ==
    LET files == FilesWithout(SrvLatestVersion(W).files, old)
    IN  FilesHavePath(files, p) /\ FilesHavePath(files, SrvRenamedPath(p))

\* =========================================================================
\* Handler plumbing
\* =========================================================================

Raise(W, e) == [W EXCEPT !.exc = e]

Request(W, op, fid, status) ==
    [W EXCEPT !.requests = Append(@, [op |-> op, id |-> fid, status |-> status])]

CountRequests(W, op) ==
    Cardinality({i \in 1..Len(W.requests) : W.requests[i].op = op})

\* =========================================================================
\* dict: a Python dict keeps its keys in insertion order
\* =========================================================================

DictHas(recs, fid) == \E i \in 1..Len(recs) : recs[i].id = fid

DictGet(recs, fid) == recs[CHOOSE i \in 1..Len(recs) : recs[i].id = fid]

\* d[k] = v : an existing key keeps its position
DictSet(recs, r) ==
    IF DictHas(recs, r.id)
    THEN [i \in 1..Len(recs) |-> IF recs[i].id = r.id THEN r ELSE recs[i]]
    ELSE Append(recs, r)

\* a pop that leaves the dict as it is
DictPop_kept(recs, fid) == recs

\* d.pop(k, None)
DictPop(recs, fid) == SelectSeq(recs, LAMBDA r : r.id # fid)

RECURSIVE DictUpdate(_, _)
DictUpdate(recs, new) ==
    IF new = <<>> THEN recs
    ELSE DictUpdate(DictSet(recs, Head(new)), Tail(new))

\* =========================================================================
\* OnlineDataverseDataset
\* =========================================================================

FileIdRecord(fid, path, is_released, is_latest_version) ==
    [id |-> fid, path |-> path, is_released |-> is_released,
     is_latest_version |-> is_latest_version]

get_file_records_from_version_listing(version, latest) ==
    DictUpdate(<<>>,
        [i \in 1..Len(version.files) |->
            FileIdRecord(version.files[i].id, version.files[i].path,
                         version.versionState = "RELEASED", latest)])

\* v.get('versionNumber') or sys.maxsize
OrMaxsize(x) == IF x = None \/ x = 0 THEN maxsize ELSE x

VersionSortKey(v) ==
    <<OrMaxsize(v.versionNumber), OrMaxsize(v.versionMinorNumber)>>

TupleLess(a, b) == a[1] < b[1] \/ (a[1] = b[1] /\ a[2] < b[2])

\* list.sort(key=..., reverse=False): stable, ascending
RECURSIVE InsertByKey(_, _)
InsertByKey(s, v) ==
    IF s = <<>> THEN <<v>>
    ELSE IF TupleLess(VersionSortKey(v), VersionSortKey(Head(s)))
         THEN <<v>> \o s
         ELSE <<Head(s)>> \o InsertByKey(Tail(s), v)

RECURSIVE SortVersions(_)
SortVersions(s) ==
    IF s = <<>> THEN <<>>
    ELSE InsertByKey(SortVersions(SubSeq(s, 1, Len(s) - 1)), s[Len(s)])

RECURSIVE UpdateFromVersions(_, _)
UpdateFromVersions(recs, versions) ==
    IF versions = <<>> THEN recs
    ELSE UpdateFromVersions(
            DictUpdate(recs,
                get_file_records_from_version_listing(Head(versions), FALSE)),
            Tail(versions))

\* the records that the all-versions expansion builds from a listing
AllVersionsRecords(listing) ==
    LET dataset_versions == SortVersions(listing)
        n == Len(dataset_versions)
    IN  DictUpdate(
            UpdateFromVersions(<<>>, SubSeq(dataset_versions, 1, n - 1)),
            get_file_records_from_version_listing(dataset_versions[n], TRUE))

Loaded(recs) == [is_None |-> FALSE, recs |-> recs]

\* property _file_records_by_fileid: populate from the latest version on
\* first use
\* the property without the test for a populated cache
file_records_by_fileid_reload(W, net) ==
    IF W.exc # "none" THEN W
    ELSE IF ~net.latest_ok
    THEN Raise(Request(W, "get_dataset", 0, "err"), "HTTPError")
    ELSE [Request(W, "get_dataset", 0, "ok") EXCEPT
            !.file_records = Loaded(
                get_file_records_from_version_listing(SrvLatestVersion(W), TRUE))]

file_records_by_fileid(W, net) ==
    IF W.exc # "none" \/ ~W.file_records.is_None THEN W
    ELSE IF ~net.latest_ok
    THEN Raise(Request(W, "get_dataset", 0, "err"), "HTTPError")
    ELSE [Request(W, "get_dataset", 0, "ok") EXCEPT
            !.file_records = Loaded(
                get_file_records_from_version_listing(SrvLatestVersion(W), TRUE))]

\* the expansion without the flag being set at its end
ensure_file_records_for_all_versions_unflagged(W, net) ==
    IF W.exc # "none" \/ W.knows_all_versions THEN W
    ELSE IF ~net.versions_ok
    THEN Raise(Request(W, "get_dataset_versions", 0, "err"), "HTTPError")
    ELSE [Request(W, "get_dataset_versions", 0, "ok") EXCEPT
            !.file_records = Loaded(AllVersionsRecords(SrvVersionListing(W)))]

ensure_file_records_for_all_versions(W, net) ==
    IF W.exc # "none" \/ W.knows_all_versions THEN W
    ELSE IF ~net.versions_ok
    THEN Raise(Request(W, "get_dataset_versions", 0, "err"), "HTTPError")
    ELSE [Request(W, "get_dataset_versions", 0, "ok") EXCEPT
            !.file_records = Loaded(AllVersionsRecords(SrvVersionListing(W))),
            !.knows_all_versions = TRUE]

\* get_fileid_from_path reporting the first match
get_fileid_from_path_first(W, net, path, latest_only) ==
    LET W1 == IF latest_only THEN W
              ELSE ensure_file_records_for_all_versions(W, net)
        mpath == ODD_mangle_path(path)
        W2 == file_records_by_fileid(W1, net)
        match_path == SelectSeq(W2.file_records.recs,
                        LAMBDA f : /\ f.path = mpath
                                   /\ (~latest_only \/ f.is_latest_version))
    IN  IF W2.exc # "none" THEN W2
        ELSE [W2 EXCEPT !.ret = IF match_path = <<>> THEN None
                                ELSE match_path[1].id]

\* the result is left in W.ret
get_fileid_from_path(W, net, path, latest_only) ==
    LET W1 == IF latest_only THEN W
              ELSE ensure_file_records_for_all_versions(W, net)
        mpath == ODD_mangle_path(path)
        W2 == file_records_by_fileid(W1, net)
        match_path == SelectSeq(W2.file_records.recs,
                        LAMBDA f : /\ f.path = mpath
                                   /\ (~latest_only \/ f.is_latest_version))
    IN  IF W2.exc # "none" THEN W2
        ELSE [W2 EXCEPT !.ret = IF match_path = <<>> THEN None
                                \* dict.popitem(): the last inserted match
                                ELSE match_path[Len(match_path)].id]

\* the result is left in W.retb
has_fileid(W, net, fid) ==
    LET W1 == file_records_by_fileid(
                  ensure_file_records_for_all_versions(W, net), net)
    IN  IF W1.exc # "none" THEN W1
        ELSE [W1 EXCEPT !.retb = DictHas(W1.file_records.recs, fid)]

\* has_fileid_in_latest_version answering for a record of any version
has_fileid_in_latest_version_any(W, net, fid) ==
    LET W1 == file_records_by_fileid(W, net)
        recs == W1.file_records.recs
    IN  IF W1.exc # "none" THEN W1
        ELSE [W1 EXCEPT !.retb = DictHas(recs, fid)]

has_fileid_in_latest_version(W, net, fid) ==
    LET W1 == file_records_by_fileid(W, net)
        recs == W1.file_records.recs
    IN  IF W1.exc # "none" THEN W1
        ELSE [W1 EXCEPT !.retb = IF ~DictHas(recs, fid) THEN FALSE
                                 ELSE DictGet(recs, fid).is_latest_version]

is_released_file(W, net, fid) ==
    LET W1 == file_records_by_fileid(W, net)
        recs == W1.file_records.recs
    IN  IF W1.exc # "none" THEN W1
        ELSE [W1 EXCEPT !.retb = IF ~DictHas(recs, fid) THEN FALSE
                                 ELSE DictGet(recs, fid).is_released]

\* the result is left in W.retb
has_path(W, net, path) ==
    LET mpath == ODD_mangle_path(path)
        W1 == file_records_by_fileid(
                  ensure_file_records_for_all_versions(W, net), net)
    IN  IF W1.exc # "none" THEN W1
        ELSE [W1 EXCEPT !.retb =
                \E i \in 1..Len(W1.file_records.recs) :
                    W1.file_records.recs[i].path = mpath]

has_path_in_latest_version(W, net, path) ==
    LET mpath == ODD_mangle_path(path)
        W1 == file_records_by_fileid(W, net)
        recs == W1.file_records.recs
    IN  IF W1.exc # "none" THEN W1
        ELSE [W1 EXCEPT !.retb =
                \E i \in 1..Len(recs) :
                    recs[i].is_latest_version /\ recs[i].path = mpath]

download_file(W, net, fid) ==
    IF W.exc # "none" THEN W
    ELSE IF SrvHasFile(W, fid) /\ net.download_ok
    THEN Request(W, "get_datafile", fid, "ok")
    ELSE Raise(Request(W, "get_datafile", fid, "err"), "HTTPError")

\* remove_file with the record dropped before the response is looked at
remove_file_eager(W, net, fid) ==
    IF W.exc # "none" THEN W
    ELSE IF \/ ~FilesHaveId(SrvLatestVersion(W).files, fid)
            \/ net.fail_delete = CountRequests(W, "delete") + 1
    THEN LET W1 == file_records_by_fileid(W, net)
         IN  Raise(Request([W1 EXCEPT !.file_records.recs = DictPop(@, fid)],
                           "delete", fid, "err"), "HTTPError")
    ELSE LET W1 == file_records_by_fileid(
                       Request(SrvDelete(W, fid), "delete", fid, "ok"), net)
         IN  IF W1.exc # "none" THEN W1
             ELSE [W1 EXCEPT !.file_records.recs = DictPop(@, fid)]

remove_file(W, net, fid) ==
    IF W.exc # "none" THEN W
    ELSE IF \/ ~FilesHaveId(SrvLatestVersion(W).files, fid)
            \/ net.fail_delete = CountRequests(W, "delete") + 1
    THEN Raise(Request(W, "delete", fid, "err"), "HTTPError")
    ELSE LET W1 == file_records_by_fileid(
                       Request(SrvDelete(W, fid), "delete", fid, "ok"), net)
         IN  IF W1.exc # "none" THEN W1
             ELSE [W1 EXCEPT !.file_records.recs = DictPop(@, fid)]

\* the status of the upload or replace request: a replace of a file that is
\* not in the latest version is refused, a request that carries content
\* already on file may be refused as duplicate content
UploadStatus(W, net, replace_id) ==
    IF replace_id # None /\ ~FilesHaveId(SrvLatestVersion(W).files, replace_id)
    THEN "err"
    ELSE net.upload

\* upload_file that keeps the record of the replaced id
upload_file_keeping(W, net, remote_path, replace_id) ==
    IF W.exc # "none" THEN W
    ELSE
    LET mpath == ODD_mangle_path(remote_path)
        op == IF replace_id # None THEN "replace" ELSE "upload"
        rid == IF replace_id # None THEN replace_id ELSE 0
        status == UploadStatus(W, net, replace_id)
    IN  IF status = "dup"
        THEN Raise(Request(W, op, rid, "dup"), "HTTPError400duplicate")
        ELSE IF status = "err"
        THEN Raise(Request(W, op, rid, "err"), "HTTPError")
        ELSE
        LET S == IF replace_id # None THEN SrvReplace(W, replace_id, mpath)
                 ELSE SrvUpload(W, mpath)
            upload_rec == S.draft[Len(S.draft)]
            W1 == file_records_by_fileid(Request(S, op, rid, "ok"), net)
            popped == W1.file_records.recs
        IN  IF W1.exc # "none" THEN W1
            ELSE [W1 EXCEPT
                    !.file_records.recs =
                        DictSet(popped,
                            FileIdRecord(upload_rec.id, upload_rec.path,
                                         FALSE, TRUE)),
                    !.ret = upload_rec.id]

\* the id of the upload is left in W.ret
upload_file(W, net, remote_path, replace_id) ==
    IF W.exc # "none" THEN W
    ELSE
    LET mpath == ODD_mangle_path(remote_path)
        op == IF replace_id # None THEN "replace" ELSE "upload"
        rid == IF replace_id # None THEN replace_id ELSE 0
        status == UploadStatus(W, net, replace_id)
    IN  IF status = "dup"
        THEN Raise(Request(W, op, rid, "dup"), "HTTPError400duplicate")
        ELSE IF status = "err"
        THEN Raise(Request(W, op, rid, "err"), "HTTPError")
        ELSE
        LET S == IF replace_id # None THEN SrvReplace(W, replace_id, mpath)
                 ELSE SrvUpload(W, mpath)
            upload_rec == S.draft[Len(S.draft)]
            W1 == file_records_by_fileid(Request(S, op, rid, "ok"), net)
            popped == IF replace_id # None
                      THEN DictPop(W1.file_records.recs, replace_id)
                      ELSE W1.file_records.recs
        IN  IF W1.exc # "none" THEN W1
            ELSE [W1 EXCEPT
                    !.file_records.recs =
                        DictSet(popped,
                            FileIdRecord(upload_rec.id, upload_rec.path,
                                         FALSE, TRUE)),
                    !.ret = upload_rec.id]

\* the status of the metadata update: the file must be in the latest
\* version, and a label that is taken in that version is refused
RenameStatus(W, net, rename_id, mpath) ==
    LET files == SrvLatestVersion(W).files
    IN  IF ~FilesHaveId(files, rename_id) \/ FilesHavePath(files, mpath)
        THEN "err"
        ELSE net.upload

\* rename_file that leaves the record of the file as it is
rename_file_unrecorded(W, net, new_path, rename_id, rename_path) ==
    IF W.exc # "none" THEN W
    ELSE IF rename_id = None /\ rename_path = None
    THEN Raise(W, "ValueError")
    ELSE
    LET mpath == ODD_mangle_path(new_path)
        W1 == IF rename_id = None
              THEN get_fileid_from_path(W, net, rename_path, TRUE)
              ELSE [W EXCEPT !.ret = rename_id]
        fid == W1.ret
    IN  IF W1.exc # "none" THEN W1
        ELSE IF fid = None THEN Raise(W1, "RuntimeError")
        ELSE IF RenameStatus(W1, net, fid, mpath) = "err"
        THEN Raise(Request(W1, "rename", fid, "err"), "HTTPError")
        ELSE
        LET S == SrvRename(W1, fid, mpath)
            d == CHOOSE f \in {S.draft[i] : i \in 1..Len(S.draft)} : f.id = fid
            W2 == file_records_by_fileid(Request(S, "rename", fid, "ok"), net)
        IN  IF W2.exc # "none" THEN W2
            ELSE W2

\* rename_file that sends the request although no id was found
rename_file_unresolved(W, net, new_path, rename_id, rename_path) ==
    IF W.exc # "none" THEN W
    ELSE IF rename_id = None /\ rename_path = None
    THEN Raise(W, "ValueError")
    ELSE
    LET mpath == ODD_mangle_path(new_path)
        W1 == IF rename_id = None
              THEN get_fileid_from_path(W, net, rename_path, TRUE)
              ELSE [W EXCEPT !.ret = rename_id]
        fid == W1.ret
    IN  IF W1.exc # "none" THEN W1
        ELSE IF fid = None
        THEN Raise(Request(W1, "rename", 0, "err"), "RuntimeError")
        ELSE IF RenameStatus(W1, net, fid, mpath) = "err"
        THEN Raise(Request(W1, "rename", fid, "err"), "HTTPError")
        ELSE
        LET S == SrvRename(W1, fid, mpath)
            d == CHOOSE f \in {S.draft[i] : i \in 1..Len(S.draft)} : f.id = fid
            W2 == file_records_by_fileid(Request(S, "rename", fid, "ok"), net)
        IN  IF W2.exc # "none" THEN W2
            ELSE [W2 EXCEPT
                    !.file_records.recs =
                        DictSet(@, FileIdRecord(d.id, d.path, FALSE, TRUE))]

rename_file(W, net, new_path, rename_id, rename_path) ==
    IF W.exc # "none" THEN W
    ELSE IF rename_id = None /\ rename_path = None
    THEN Raise(W, "ValueError")
    ELSE
    LET mpath == ODD_mangle_path(new_path)
        W1 == IF rename_id = None
              THEN get_fileid_from_path(W, net, rename_path, TRUE)
              ELSE [W EXCEPT !.ret = rename_id]
        fid == W1.ret
    IN  IF W1.exc # "none" THEN W1
        ELSE IF fid = None THEN Raise(W1, "RuntimeError")
        ELSE IF RenameStatus(W1, net, fid, mpath) = "err"
        THEN Raise(Request(W1, "rename", fid, "err"), "HTTPError")
        ELSE
        LET S == SrvRename(W1, fid, mpath)
            d == CHOOSE f \in {S.draft[i] : i \in 1..Len(S.draft)} : f.id = fid
            W2 == file_records_by_fileid(Request(S, "rename", fid, "ok"), net)
        IN  IF W2.exc # "none" THEN W2
            ELSE [W2 EXCEPT
                    !.file_records.recs =
                        DictSet(@, FileIdRecord(d.id, d.path, FALSE, TRUE))]

\* =========================================================================
\* DataverseRemote: the key-to-fileid record in the host's per-key state
\* =========================================================================

\* the state string is a comma separated list; its tokens are the ids
get_annex_fileid_record(W, k) ==
    {W.annex_state[k][i] : i \in 1..Len(W.annex_state[k])}

RECURSIVE JoinIds(_)
JoinIds(fileids) ==
    IF fileids = {} THEN <<>>
    ELSE LET m == CHOOSE x \in fileids : \A y \in fileids : x <= y
         IN  <<m>> \o JoinIds(fileids \ {m})

set_annex_fileid_record(W, k, fileids) ==
    [W EXCEPT !.annex_state[k] = JoinIds(fileids)]

add_annex_fileid_record(W, k, fileid) ==
    set_annex_fileid_record(W, k, get_annex_fileid_record(W, k) \cup {fileid})

remove_annex_fileid_record(W, k, fileid) ==
    set_annex_fileid_record(W, k, get_annex_fileid_record(W, k) \ {fileid})

\* =========================================================================
\* DataverseRemote: helpers
\* =========================================================================

get_fileid_from_key(W, net, k, latest_only) ==
    get_fileid_from_path(W, net, get_remotepath_for_key(k), latest_only)

\* self.is_released_file(...) in _upload_file: the remote class defines no
\* such method (OnlineDataverseDataset does), so the attribute lookup fails
DataverseRemote_is_released_file(W, fid) ==
    IF W.exc # "none" THEN W ELSE Raise(W, "AttributeError")

\* _upload_file with the refusal of duplicate content raised like any error
DataverseRemote_upload_file_reraise(W, net, remote_path, k, replace_id) ==
    LET W1 == upload_file(W, net, remote_path, replace_id)
    IN  IF W1.exc # "none" THEN W1
        ELSE
        LET upload_id == W1.ret
            W2 == IF replace_id = None THEN W1
                  ELSE LET R == DataverseRemote_is_released_file(W1, replace_id)
                       IN  IF R.exc # "none" \/ R.retb THEN R
                           ELSE remove_annex_fileid_record(R, k, replace_id)
        IN  IF W2.exc # "none" THEN W2
            ELSE add_annex_fileid_record(W2, k, upload_id)

DataverseRemote_upload_file(W, net, remote_path, k, replace_id) ==
    LET W1 == upload_file(W, net, remote_path, replace_id)
    IN  IF W1.exc = "HTTPError400duplicate"
        THEN \* nothing changed and nothing needs to be done
             [W1 EXCEPT !.exc = "none"]
        ELSE IF W1.exc # "none" THEN W1
        ELSE
        LET upload_id == W1.ret
            W2 == IF replace_id = None THEN W1
                  ELSE LET R == DataverseRemote_is_released_file(W1, replace_id)
                       IN  IF R.exc # "none" \/ R.retb THEN R
                           ELSE remove_annex_fileid_record(R, k, replace_id)
        IN  IF W2.exc # "none" THEN W2
            ELSE add_annex_fileid_record(W2, k, upload_id)

\* _remove_file with the test of is_released_file inverted
DataverseRemote_remove_file_inverted(W, net, k, rm_id) ==
    IF W.exc # "none" \/ rm_id = None THEN W
    ELSE
    LET W1 == has_fileid_in_latest_version(W, net, rm_id)
    IN  IF W1.exc # "none" \/ ~W1.retb THEN W1
        ELSE
        LET W2 == remove_file(W1, net, rm_id)
        IN  IF W2.exc # "none" THEN Raise(W2, "RemoteError")
            ELSE
            LET W3 == is_released_file(W2, net, rm_id)
            IN  IF W3.exc # "none" \/ ~W3.retb THEN W3
                ELSE remove_annex_fileid_record(W3, k, rm_id)

DataverseRemote_remove_file(W, net, k, rm_id) ==
    IF W.exc # "none" \/ rm_id = None THEN W
    ELSE
    LET W1 == has_fileid_in_latest_version(W, net, rm_id)
    IN  IF W1.exc # "none" \/ ~W1.retb THEN W1
        ELSE
        LET W2 == remove_file(W1, net, rm_id)
        IN  IF W2.exc # "none" THEN Raise(W2, "RemoteError")
            ELSE
            LET W3 == is_released_file(W2, net, rm_id)
            IN  IF W3.exc # "none" \/ W3.retb THEN W3
                ELSE remove_annex_fileid_record(W3, k, rm_id)

\* =========================================================================
\* DataverseRemote: the verbs
\* =========================================================================

\* checkpresent without the found id being recorded for the key
checkpresent_unrecorded(W, net, k) ==
    LET stored_ids == get_annex_fileid_record(W, k)
    IN  IF stored_ids # {}
        THEN LET W1 == has_fileid(W, net, CHOOSE f \in stored_ids : TRUE)
             IN  IF W1.exc # "none" THEN W1
                 ELSE [W1 EXCEPT !.retb =
                        \E f \in stored_ids : DictHas(W1.file_records.recs, f)]
        ELSE LET W1 == get_fileid_from_key(W, net, k, FALSE)
             IN  IF W1.exc # "none" THEN W1
                 ELSE [W1 EXCEPT !.retb = (W1.ret # None)]

\* the answer is left in W.retb
checkpresent(W, net, k) ==
    LET stored_ids == get_annex_fileid_record(W, k)
    IN  IF stored_ids # {}
        THEN LET W1 == has_fileid(W, net, CHOOSE f \in stored_ids : TRUE)
             IN  IF W1.exc # "none" THEN W1
                 ELSE [W1 EXCEPT !.retb =
                        \E f \in stored_ids : DictHas(W1.file_records.recs, f)]
        ELSE LET W1 == get_fileid_from_key(W, net, k, FALSE)
                 file_id == W1.ret
                 W2 == IF file_id # None /\ file_id # 0
                       THEN add_annex_fileid_record(W1, k, file_id)
                       ELSE W1
             IN  IF W1.exc # "none" THEN W1
                 ELSE [W2 EXCEPT !.retb = (file_id # None)]

transfer_store(W, net, k) ==
    LET W1 == get_fileid_from_key(W, net, k, TRUE)
    IN  IF W1.exc # "none" THEN W1
        ELSE DataverseRemote_upload_file(
                 W1, net, get_remotepath_for_key(k), k, W1.ret)

\* transfer_retrieve with the path looked up in the latest version only
transfer_retrieve_latest(W, net, k, pick) ==
    LET stored_ids == get_annex_fileid_record(W, k)
    IN  IF stored_ids # {}
        THEN download_file(W, net, pick)
        ELSE LET W1 == get_fileid_from_key(W, net, k, TRUE)
             IN  IF W1.exc # "none" THEN W1
                 ELSE IF W1.ret = None THEN Raise(W1, "RemoteError")
                 ELSE download_file(W1, net, W1.ret)

\* pick: the element that set.pop() hands out
transfer_retrieve(W, net, k, pick) ==
    LET stored_ids == get_annex_fileid_record(W, k)
    IN  IF stored_ids # {}
        THEN download_file(W, net, pick)
        ELSE LET W1 == get_fileid_from_key(W, net, k, FALSE)
             IN  IF W1.exc # "none" THEN W1
                 ELSE IF W1.ret = None THEN Raise(W1, "RemoteError")
                 ELSE download_file(W1, net, W1.ret)

RECURSIVE RemoveEach(_, _, _, _)
RemoveEach(W, net, k, rm_ids) ==
    IF rm_ids = <<>> \/ W.exc # "none" THEN W
    ELSE RemoveEach(DataverseRemote_remove_file(W, net, k, Head(rm_ids)),
                    net, k, Tail(rm_ids))

\* remove with the id at the key's path added to the recorded ids
remove_union(W, net, k, order) ==
    LET W1 == get_fileid_from_key(W, net, k, TRUE)
        found == IF W1.exc # "none"
                    \/ W1.ret \in get_annex_fileid_record(W, k)
                 THEN <<>> ELSE <<W1.ret>>
    IN  RemoveEach(W1, net, k, order \o found)

\* order: the order in which the loop visits the recorded ids
remove(W, net, k, order) ==
    LET stored_ids == get_annex_fileid_record(W, k)
    IN  IF stored_ids # {}
        THEN RemoveEach(W, net, k, order)
        ELSE LET W1 == get_fileid_from_key(W, net, k, TRUE)
             IN  RemoveEach(W1, net, k, <<W1.ret>>)

\* =========================================================================
\* remote.py: DataverseRemote, the export mode verbs.  This class keeps one
\* id per key and its own caches _files_latest and _files_old.
\* =========================================================================

\* the paths that the host exports to
NumPaths == 2

\* the file ids that the server hands out to exports
MaxExportFileId == 2
ExportPaths == 1..NumPaths

\* the rewrite of the directory names of an export path; the rewritten form
\* differs from the path and distinct paths stay distinct
mangle_directory_names(p) == 10 + p

\* CURL_EXISTS is looked up in the environment of the process

\* FileIdRecord = namedtuple("FileIdRecord", ["path", "is_released"]), with
\* the key of the dict entry
ExportFileIdRecord(fid, path, is_released) ==
    [id |-> fid, path |-> path, is_released |-> is_released]

ExportRecordsOf(version, is_released) ==
    DictUpdate(<<>>,
        [i \in 1..Len(version.files) |->
            ExportFileIdRecord(version.files[i].id, version.files[i].path,
                               is_released)])

RECURSIVE ExportRecordsOfAll(_, _)
ExportRecordsOfAll(recs, versions) ==
    IF versions = <<>> THEN recs
    ELSE ExportRecordsOfAll(
            DictUpdate(recs, ExportRecordsOf(Head(versions), TRUE)),
            Tail(versions))

\* property files_latest (with dataset_latest, which it is built from)
prop_files_latest(W, net) ==
    IF W.exc # "none" \/ ~W.files_latest.is_None THEN W
    ELSE IF ~net.latest_ok
    THEN Raise(Request(W, "get_dataset", 0, "err"), "HTTPError")
    ELSE [Request(W, "get_dataset", 0, "ok") EXCEPT
            !.files_latest = Loaded(
                ExportRecordsOf(SrvLatestVersion(W),
                    SrvLatestVersion(W).versionState = "RELEASED"))]

\* property files_old (with old_dataset_versions, which it is built from):
\* all versions but the last of the sorted listing
prop_files_old(W, net) ==
    IF W.exc # "none" \/ ~W.files_old.is_None THEN W
    ELSE IF ~net.versions_ok
    THEN Raise(Request(W, "get_dataset_versions", 0, "err"), "HTTPError")
    ELSE LET sorted == SortVersions(SrvVersionListing(W))
             old == SubSeq(sorted, 1, Len(sorted) - 1)
         IN  [Request(W, "get_dataset_versions", 0, "ok") EXCEPT
                !.files_old = Loaded(ExportRecordsOfAll(<<>>, old))]

remove_from_filelist(W, net, id) ==
    LET W1 == prop_files_latest(W, net)
    IN  IF W1.exc # "none" THEN W1
        ELSE [W1 EXCEPT !.files_latest.recs = DictPop(@, id)]

\* d: the file entry of the response to the upload
add_to_filelist(W, net, d) ==
    LET W1 == prop_files_latest(W, net)
    IN  IF W1.exc # "none" THEN W1
        ELSE [W1 EXCEPT !.files_latest.recs =
                DictSet(@, ExportFileIdRecord(d.id, d.path, FALSE))]

\* the id on record for the key, or None
export_get_annex_fileid_record(W, k) ==
    IF W.annex_state[k] = <<>> THEN None ELSE W.annex_state[k][1]

\* id = None stands for the empty string, which unsets the record
set_stored_id(W, k, id) ==
    IF W.exc # "none" THEN W
    ELSE [W EXCEPT !.annex_state[k] = IF id = None THEN <<>> ELSE <<id>>]

\* the result is left in W.ret
get_fileid_from_exportpath(W, net, path, latest_only) ==
    LET W1 == prop_files_latest(W, net)
        Match(recs) == SelectSeq(recs, LAMBDA f : f.path = path)
        in_latest == Match(W1.files_latest.recs)
        W2 == IF ~latest_only /\ in_latest = <<>>
              THEN prop_files_old(W1, net) ELSE W1
        existing_id == IF ~latest_only /\ in_latest = <<>>
                       THEN Match(W2.files_old.recs) ELSE in_latest
    IN  IF W2.exc # "none" THEN W2
        ELSE [W2 EXCEPT !.ret = IF existing_id = <<>> THEN None
                                ELSE existing_id[1].id]

\* the module re, which _upload_file hands to remove_from_filelist: it is the
\* key of no entry of the dict
re_module == -2

\* `files_latest[id].is_released or id in files_old.keys()`; the result is
\* left in W.retb
export_is_released(W, net, id) ==
    LET W1 == prop_files_latest(W, net)
    IN  IF W1.exc # "none" THEN W1
        ELSE IF ~DictHas(W1.files_latest.recs, id) THEN Raise(W1, "KeyError")
        ELSE IF DictGet(W1.files_latest.recs, id).is_released
        THEN [W1 EXCEPT !.retb = TRUE]
        ELSE LET W2 == prop_files_old(W1, net)
             IN  IF W2.exc # "none" THEN W2
                 ELSE [W2 EXCEPT !.retb = DictHas(W2.files_old.recs, id)]

\* _upload_file after a replace: the filelist and the record of the key
export_upload_replaced(S, net, k, replace_id) ==
    LET R2 == export_is_released(remove_from_filelist(S, net, re_module),
                                 net, replace_id)
    IN  IF R2.exc # "none" \/ R2.retb THEN R2
        ELSE set_stored_id(R2, k, None)

\* _upload_file, its end: the cache and the record of the key
export_upload_done(W2, net, k, uploaded_file) ==
    IF W2.exc # "none" THEN W2
    ELSE set_stored_id(add_to_filelist(W2, net, uploaded_file), k,
                       uploaded_file.id)

\* _upload_file after the server stored the file (S: with its response)
export_upload_success(S, net, k, replace_id) ==
    export_upload_done(
        IF replace_id = None THEN S
        ELSE export_upload_replaced(S, net, k, replace_id),
        net, k, S.draft[Len(S.draft)])

\* _upload_file from its request on
export_upload_request(W1, net, k, rfile, replace_id, op, rid, status) ==
    IF status = "dup" THEN Request(W1, op, rid, "dup")
    ELSE IF status = "err"
    THEN Raise(Request(W1, op, rid, "err"), "HTTPError")
    ELSE export_upload_success(
            Request(IF replace_id # None
                    THEN SrvReplace(W1, replace_id, rfile)
                    ELSE SrvUpload(W1, rfile), op, rid, "ok"),
            net, k, replace_id)

\* _upload_file after the lookup of the path (W1: with its result)
export_upload_lookup(W1, net, k, rfile) ==
    IF W1.exc # "none" THEN W1
    ELSE export_upload_request(W1, net, k, rfile, W1.ret,
            IF W1.ret # None THEN "replace" ELSE "upload",
            IF W1.ret # None THEN W1.ret ELSE 0,
            UploadStatus(W1, net, W1.ret))

\* helper for both transfer-store methods; rfile: remote_file, the mangled path
export_upload_file(W, net, k, rfile) ==
    export_upload_lookup(get_fileid_from_exportpath(W, net, rfile, TRUE),
                         net, k, rfile)

\* `self._get_annex_fileid_record(key) or
\* self._get_fileid_from_exportpath(remote_file)`; the result is left in W.ret
export_stored_or_path(W, net, k, rfile) ==
    IF export_get_annex_fileid_record(W, k) # None
    THEN [W EXCEPT !.ret = export_get_annex_fileid_record(W, k)]
    ELSE get_fileid_from_exportpath(W, net, rfile, TRUE)

\* _remove_file after the server deleted the file (S: with its response)
export_remove_deleted(S, net, k, rm_id) ==
    LET W3 == export_is_released(S, net, rm_id)
    IN  IF W3.exc # "none" THEN W3
        ELSE remove_from_filelist(
                IF W3.retb THEN W3 ELSE set_stored_id(W3, k, None),
                net, rm_id)

\* _remove_file from the test of rm_id against the latest version on
export_remove_listed(W2, net, k, rm_id) ==
    IF W2.exc # "none" \/ ~DictHas(W2.files_latest.recs, rm_id) THEN W2
    ELSE IF \/ ~FilesHaveId(SrvLatestVersion(W2).files, rm_id)
            \/ net.fail_delete = 1
    THEN Raise(Request(W2, "delete", rm_id, "err"), "HTTPError")
    ELSE export_remove_deleted(
            Request(SrvDelete(W2, rm_id), "delete", rm_id, "ok"),
            net, k, rm_id)

\* _remove_file once rm_id is determined (W1: with rm_id)
export_remove_id(W1, net, k) ==
    IF W1.exc # "none" \/ W1.ret = None THEN W1
    ELSE export_remove_listed(prop_files_latest(W1, net), net, k, W1.ret)

\* helper for both remove methods; rfile: remote_file, the mangled path
export_remove_file(W, net, k, rfile) ==
    export_remove_id(export_stored_or_path(W, net, k, rfile), net, k)

\* the answer is left in W.retb
checkpresentexport(W, net, k, path) ==
    LET stored_id == export_get_annex_fileid_record(W, k)
        W1 == prop_files_latest(W, net)
        recs == W1.files_latest.recs
    IN  IF W1.exc # "none" THEN W1
        ELSE IF stored_id # None
        THEN [W1 EXCEPT !.retb = DictHas(recs, stored_id)]
        ELSE [W1 EXCEPT !.retb =
                \E i \in 1..Len(recs) :
                    recs[i].path = mangle_directory_names(path)]

transferexport_store(W, net, k, path) ==
    export_upload_file(W, net, k, mangle_directory_names(path))

removeexport(W, net, k, path) ==
    export_remove_file(W, net, k, mangle_directory_names(path))

\* renameexport that answers a file_id of None as an unsupported request
renameexport_id_unsupported(W1, net, new) ==
    IF W1.exc # "none" THEN W1
    ELSE IF W1.ret = None THEN Raise(W1, "UnsupportedRequest")
    ELSE IF RenameStatus(W1, net, W1.ret, new) = "err"
    THEN Raise(Request(W1, "rename", W1.ret, "err"), "RemoteError")
    ELSE Request(SrvRename(W1, W1.ret, new), "rename", W1.ret, "ok")

\* renameexport once file_id is determined (W1: with file_id); new: the
\* mangled new_filename.  The request fails when update_datafile_metadata
\* returns a non-zero returncode.
renameexport_id(W1, net, new) ==
    IF W1.exc # "none" THEN W1
    ELSE IF W1.ret = None THEN Raise(W1, "RemoteError")
    ELSE IF RenameStatus(W1, net, W1.ret, new) = "err"
    THEN Raise(Request(W1, "rename", W1.ret, "err"), "RemoteError")
    ELSE Request(SrvRename(W1, W1.ret, new), "rename", W1.ret, "ok")

\* curl_exists: CURL_EXISTS
renameexport(W, net, k, filename, new, curl_exists) ==
    IF ~curl_exists THEN Raise(W, "UnsupportedRequest")
    ELSE renameexport_id(
            export_stored_or_path(W, net, k, mangle_directory_names(filename)),
            net, mangle_directory_names(new))

\* =========================================================================
\* The round trip of one key, followed over the verbs as they are handled
\* =========================================================================

RoundTrip == <<"STORE", "CHECKPRESENT", "RETRIEVE", "REMOVE", "CHECKPRESENT">>

AllRequestsOk(W) == \A i \in 1..Len(W.requests) : W.requests[i].status = "ok"

\* the dataset holds no file for the key in any version, and no id is bound
FreshKey(k) ==
    LET p == ODD_mangle_path(get_remotepath_for_key(k))
        q == SrvRenamedPath(p)
    IN  /\ annex_state[k] = <<>>
        /\ ~(has_draft /\ (FilesHavePath(draft, p) \/ FilesHavePath(draft, q)))
        /\ \A i \in 1..Len(released) :
              ~(FilesHavePath(released[i].files, p)
                \/ FilesHavePath(released[i].files, q))

NoRoundTrip == [pos |-> 0, key |-> 0, fid |-> 0]

S1Next(v, k, W) ==
    IF s1.pos \in 1..4 /\ v = RoundTrip[s1.pos + 1] /\ k = s1.key
       /\ AllRequestsOk(W)
    THEN [s1 EXCEPT !.pos = @ + 1]
    ELSE IF v = "STORE" /\ FreshKey(k) /\ AllRequestsOk(W)
    THEN [pos |-> 1, key |-> k, fid |-> next_id]
    ELSE NoRoundTrip

\* =========================================================================
\* State machine
\* =========================================================================

World ==
    [released |-> released, draft |-> draft, has_draft |-> has_draft,
     next_id |-> next_id, file_records |-> file_records,
     knows_all_versions |-> knows_all_versions, annex_state |-> annex_state,
     files_latest |-> files_latest, files_old |-> files_old,
     requests |-> <<>>, exc |-> "none", ret |-> None, retb |-> FALSE]

Net(l, v, u, d, g) ==
    [latest_ok |-> l, versions_ok |-> v, upload |-> u, fail_delete |-> d,
     download_ok |-> g]

Answer(W) == IF W.exc = "none" THEN "SUCCESS" ELSE "FAILURE"

PresentAnswer(W) ==
    IF W.exc # "none" THEN "FAILURE"
    ELSE IF W.retb THEN "PRESENT" ELSE "ABSENT"

\* a failure drawn for a request happens in the handler: the request is made
PlanHappens(W, net) ==
    LET Made(op, status) ==
            \E i \in 1..Len(W.requests) :
                W.requests[i].op = op /\ W.requests[i].status = status
    IN  /\ ~net.latest_ok => Made("get_dataset", "err")
        /\ ~net.versions_ok => Made("get_dataset_versions", "err")
        /\ net.upload # "ok" =>
              \/ Made("upload", net.upload) \/ Made("replace", net.upload)
              \/ Made("rename", net.upload)
        /\ net.fail_delete # 0 => Made("delete", "err")
        /\ ~net.download_ok => Made("get_datafile", "err")

\* _files_latest = None, _files_old = None
NotLoaded == [is_None |-> TRUE, recs |-> <<>>]

\* prepare() was not called
NoPrepare == [pc |-> "idle"]

\* no path was handed to the codec
NoPath == [pc |-> "idle"]

\* format_doi() was not called
NoDoi == [pc |-> "idle"]

\* no key has a state string; no process or run is followed
NoState ==
    [state |-> [k \in Keys |-> <<>>], op |-> "none", key |-> 0, ids |-> {},
     before |-> [k \in Keys |-> <<>>], ret |-> {}]

\* a remote on an empty dataset, outside of a verb
NewRemote ==
    [released |-> <<>>, draft |-> <<>>, has_draft |-> TRUE, next_id |-> 1,
     file_records |-> NotLoaded, knows_all_versions |-> FALSE,
     annex_state |-> [k \in Keys |-> <<>>],
     files_latest |-> NotLoaded, files_old |-> NotLoaded,
     requests |-> <<>>, exc |-> "none", ret |-> None, retb |-> FALSE]

\* a process of the remote outside of a verb.  loc: what the handler keeps
\* between two of its requests; crossed: the other process made a request
\* while the verb was handled
IdleProcess ==
    [file_records |-> NotLoaded, knows_all_versions |-> FALSE, pc |-> "idle",
     loc |-> None, verb |-> "NONE", answer |-> "NONE", crossed |-> FALSE]

\* One process of the remote per key on one empty dataset.  alone: the
\* remote that is handed the verbs of the process on a dataset of its own;
\* mine: the ids that the server gave to the uploads of the process; step:
\* the requests of the last step
NoProcs ==
    [srv |-> [released |-> <<>>, draft |-> <<>>, has_draft |-> TRUE,
              next_id |-> 1, annex_state |-> [k \in Keys |-> <<>>]],
     p |-> [k \in Keys |-> IdleProcess],
     alone |-> [k \in Keys |-> NewRemote],
     alone_answer |-> [k \in Keys |-> "NONE"],
     mine |-> [k \in Keys |-> <<>>],
     step |-> <<>>]

\* two runs of the remote, each on its own copy of the dataset: run a is
\* handed every verb, run b every verb but the added CHECKPRESENT
NoPair ==
    [a |-> NewRemote, b |-> NewRemote, verb |-> "NONE",
     a_answer |-> "NONE", b_answer |-> "NONE"]

\* no export of a key that is followed over its rename
NotMoved == [pos |-> 0, key |-> 0, old |-> 0, new |-> 0]

\* a new process of the export remote, outside of an export verb
ExportIdle ==
    /\ files_latest' = NotLoaded
    /\ files_old' = NotLoaded
    /\ remote_file' = 0
    /\ new_filename' = 0
    /\ moved' = NotMoved

NoCall ==
    [id |-> None, ret |-> None, old_path |-> None, taken |-> FALSE,
     rename_path |-> None]

Commit(W, v, k, same, ans) ==
    /\ released' = W.released
    /\ draft' = W.draft
    /\ has_draft' = W.has_draft
    /\ next_id' = W.next_id
    /\ file_records' = W.file_records
    /\ knows_all_versions' = W.knows_all_versions
    /\ annex_state' = W.annex_state
    /\ verb' = v
    /\ key' = k
    /\ had' = get_annex_fileid_record(World, k)
    /\ same_content' = same
    /\ answer' = ans
    /\ exc' = W.exc
    /\ requests' = W.requests
    /\ s1' = S1Next(v, k, W)
    /\ call' = NoCall
    /\ UNCHANGED <<exportVars, otherVars>>

Perms(S) ==
    {o \in [1..Cardinality(S) -> S] :
        \A i, j \in 1..Cardinality(S) : i # j => o[i] # o[j]}

LatestFiles == SrvLatestVersion(World).files

KeyPath(k) == ODD_mangle_path(get_remotepath_for_key(k))

Init ==
    /\ released = <<>>
    /\ draft = <<>>
    /\ has_draft = TRUE
    /\ next_id = 1
    /\ file_records = [is_None |-> TRUE, recs |-> <<>>]
    /\ knows_all_versions = FALSE
    /\ annex_state = [k \in Keys |-> <<>>]
    /\ verb = "NONE"
    /\ key = 0
    /\ had = {}
    /\ same_content = FALSE
    /\ answer = "NONE"
    /\ exc = "none"
    /\ requests = <<>>
    /\ s1 = NoRoundTrip
    /\ call = NoCall
    /\ files_latest = NotLoaded
    /\ files_old = NotLoaded
    /\ remote_file = 0
    /\ new_filename = 0
    /\ moved = NotMoved
    /\ prep = NoPrepare
    /\ codec = NoPath
    /\ doi = NoDoi
    /\ keystate = NoState
    /\ procs = NoProcs
    /\ pair = NoPair

\* TRANSFER STORE key.  same: the local content is the content of the file at
\* the key's path ("key"), of another file of the latest version ("other"),
\* or new ("no"); only content already on file can be refused as duplicate.
Store(k, same, l, u) ==
    /\ next_id <= MaxFileId
    /\ same = "key" => FilesHavePath(LatestFiles, KeyPath(k))
    /\ same = "other" =>
          \E i \in 1..Len(LatestFiles) : LatestFiles[i].path # KeyPath(k)
    /\ u = "dup" => same # "no"
    /\ same = "other" => u = "dup"
    /\ ~SrvOutOfLabels(World, None, KeyPath(k))
    /\ ~l => file_records.is_None
    /\ LET net == Net(l, TRUE, u, 0, TRUE)
           W == transfer_store(World, net, k)
       IN  PlanHappens(W, net) /\ Commit(W, "STORE", k, same = "key", Answer(W))

CheckPresent(k, v) ==
    /\ ~v => ~knows_all_versions
    /\ LET net == Net(TRUE, v, "ok", 0, TRUE)
           W == checkpresent(World, net, k)
       IN  /\ PlanHappens(W, net)
           /\ Commit(W, "CHECKPRESENT", k, FALSE, PresentAnswer(W))

Retrieve(k, v, g) ==
    \E pick \in get_annex_fileid_record(World, k) \cup {None} :
        /\ pick = None <=> get_annex_fileid_record(World, k) = {}
        /\ ~v => (~knows_all_versions /\ pick = None /\ g)
        /\ LET net == Net(TRUE, v, "ok", 0, g)
               W == transfer_retrieve(World, net, k, pick)
           IN  PlanHappens(W, net) /\ Commit(W, "RETRIEVE", k, FALSE, Answer(W))

Remove(k, l, d) ==
    \E order \in Perms(get_annex_fileid_record(World, k)) :
        /\ ~l => (file_records.is_None /\ d = 0)
        /\ d <= IF order = <<>> THEN 1 ELSE Len(order)
        /\ LET net == Net(l, TRUE, "ok", d, TRUE)
               W == remove(World, net, k, order)
           IN  PlanHappens(W, net) /\ Commit(W, "REMOVE", k, FALSE, Answer(W))

\* a new remote process: the host keeps the per-key state, the cache is new
Restart ==
    /\ file_records' = [is_None |-> TRUE, recs |-> <<>>]
    /\ knows_all_versions' = FALSE
    /\ verb' = "NONE" /\ key' = 0 /\ had' = {} /\ same_content' = FALSE
    /\ answer' = "NONE" /\ exc' = "none" /\ requests' = <<>>
    /\ s1' = NoRoundTrip
    /\ call' = NoCall
    /\ ExportIdle
    /\ UNCHANGED otherVars
    /\ UNCHANGED <<released, draft, has_draft, next_id, annex_state>>

\* The DRAFT is published (outside of the remote, between two of its
\* processes): as the first version 1.0, else as a major or a minor release.
Publish(minor) ==
    /\ has_draft
    /\ Len(released) < MaxReleases
    /\ LET n == Len(released)
           major == IF n = 0 THEN 1
                    ELSE IF minor THEN released[n].versionNumber
                    ELSE released[n].versionNumber + 1
           minornum == IF n = 0 \/ ~minor THEN 0
                       ELSE released[n].versionMinorNumber + 1
       IN  released' = Append(released,
               [versionNumber |-> major, versionMinorNumber |-> minornum,
                versionState |-> "RELEASED", files |-> draft])
    /\ has_draft' = FALSE
    /\ draft' = <<>>
    /\ file_records' = [is_None |-> TRUE, recs |-> <<>>]
    /\ knows_all_versions' = FALSE
    /\ verb' = "NONE" /\ key' = 0 /\ had' = {} /\ same_content' = FALSE
    /\ answer' = "NONE" /\ exc' = "none" /\ requests' = <<>>
    /\ s1' = NoRoundTrip
    /\ call' = NoCall
    /\ ExportIdle
    /\ UNCHANGED otherVars
    /\ UNCHANGED <<next_id, annex_state>>

\* the observations of the last verb and the cache of its process are gone
NoVerb ==
    /\ file_records' = [is_None |-> TRUE, recs |-> <<>>]
    /\ knows_all_versions' = FALSE
    /\ verb' = "NONE" /\ key' = 0 /\ had' = {} /\ same_content' = FALSE
    /\ answer' = "NONE" /\ exc' = "none" /\ requests' = <<>>
    /\ s1' = NoRoundTrip
    /\ call' = NoCall
    /\ ExportIdle
    /\ UNCHANGED otherVars

\* Another writer on the dataset (a clone of the repository with its own
\* per-key state, between two processes of this remote) stores the key: the
\* file at the key's path is replaced and the new id is bound there, not here.
Replaced(k) ==
    /\ next_id <= MaxFileId
    /\ FilesHavePath(LatestFiles, KeyPath(k))
    /\ LET old == (CHOOSE i \in 1..Len(LatestFiles) :
                        LatestFiles[i].path = KeyPath(k))
           S == SrvReplace(World, LatestFiles[old].id, KeyPath(k))
       IN  draft' = S.draft /\ has_draft' = S.has_draft /\ next_id' = S.next_id
    /\ NoVerb
    /\ UNCHANGED <<released, annex_state>>

\* Another writer moves the file at the key's path to another label of the
\* latest version (the file keeps its id).
Moved(k) ==
    /\ FilesHavePath(LatestFiles, KeyPath(k))
    /\ ~FilesHavePath(LatestFiles, SrvRenamedPath(KeyPath(k)))
    /\ draft' = [i \in 1..Len(LatestFiles) |->
                    IF LatestFiles[i].path = KeyPath(k)
                    THEN [LatestFiles[i] EXCEPT !.path = SrvRenamedPath(KeyPath(k))]
                    ELSE LatestFiles[i]]
    /\ has_draft' = TRUE
    /\ NoVerb
    /\ UNCHANGED <<released, next_id, annex_state>>

\* the verbs of the host and the start of a new process
RemoteNext ==
    \/ \E k \in Keys, same \in {"no", "key", "other"}, l \in BOOLEAN,
          u \in {"ok", "dup", "err"} : Store(k, same, l, u)
    \/ \E k \in Keys, v \in BOOLEAN : CheckPresent(k, v)
    \/ \E k \in Keys, v \in BOOLEAN, g \in BOOLEAN : Retrieve(k, v, g)
    \/ \E k \in Keys, l \in BOOLEAN, d \in 0..2 : Remove(k, l, d)
    \/ Restart

\* one repository writes to the dataset, and its versions are published
Next ==
    \/ RemoteNext
    \/ \E minor \in BOOLEAN : Publish(minor)

Spec == Init /\ [][Next]_vars

\* the dataset is shared with other writers and published once
NextShared ==
    \/ \E k \in Keys : Replaced(k)
    \/ \E k \in Keys : Moved(k)
    \/ RemoteNext
    \/ released = <<>> /\ Publish(FALSE)

SpecShared == Init /\ [][NextShared]_vars

\* -------------------------------------------------------------------------
\* A program on OnlineDataverseDataset: the methods are called directly, on
\* paths and file ids
\* -------------------------------------------------------------------------

\* the path of a file id in the latest version of the dataset, or None
SrvPathOf(fid) ==
    IF FilesHaveId(LatestFiles, fid)
    THEN LatestFiles[CHOOSE i \in 1..Len(LatestFiles) :
                        LatestFiles[i].id = fid].path
    ELSE None

\* id: the id argument; ret: the id returned; old_path: the path of the id
\* argument in the latest version at the call; taken: whether another file of
\* the latest version was at the (mangled) path argument at the call;
\* rename_path: the argument of that name
CallOf(W, p, fid, rename_path) ==
    [id |-> fid,
     ret |-> W.ret,
     old_path |-> IF fid = None THEN None ELSE SrvPathOf(fid),
     taken |-> FilesHavePath(FilesWithout(LatestFiles, fid),
                             ODD_mangle_path(p)),
     rename_path |-> rename_path]

DatasetCommit(W, op, p, fid, rename_path) ==
    /\ released' = W.released
    /\ draft' = W.draft
    /\ has_draft' = W.has_draft
    /\ next_id' = W.next_id
    /\ file_records' = W.file_records
    /\ knows_all_versions' = W.knows_all_versions
    /\ verb' = op
    /\ key' = p
    /\ answer' = Answer(W)
    /\ exc' = W.exc
    /\ requests' = W.requests
    /\ call' = CallOf(W, p, fid, rename_path)
    /\ had' = {} /\ same_content' = FALSE /\ s1' = NoRoundTrip
    /\ UNCHANGED <<annex_state, exportVars, otherVars>>

\* the file ids that the server has handed out
KnownIds == 1..(next_id - 1)

Upload(p, replace_id, l, u) ==
    /\ next_id <= MaxFileId
    /\ ~SrvOutOfLabels(World, replace_id, ODD_mangle_path(p))
    /\ ~l => (file_records.is_None /\ u = "ok")
    /\ LET net == Net(l, TRUE, u, 0, TRUE)
           W == upload_file(World, net, p, replace_id)
       IN  PlanHappens(W, net) /\ DatasetCommit(W, "upload_file", p, replace_id, None)

RemoveFile(fid, l, d) ==
    /\ ~l => (file_records.is_None /\ d = 0)
    /\ LET net == Net(l, TRUE, "ok", d, TRUE)
           W == remove_file(World, net, fid)
       IN  PlanHappens(W, net) /\ DatasetCommit(W, "remove_file", 0, fid, None)

\* rename_file by id, by path (rename_id is None), or without locator
Rename(p, rename_id, rename_path, l, u) ==
    /\ rename_id # None => rename_path = None
    /\ ~l => (file_records.is_None /\ u = "ok")
    /\ LET net == Net(l, TRUE, u, 0, TRUE)
           W == rename_file(World, net, p, rename_id, rename_path)
       IN  /\ PlanHappens(W, net)
           /\ DatasetCommit([W EXCEPT !.ret = None],
                            IF rename_id # None THEN "rename_file"
                            ELSE "rename_file(rename_path)", p,
                            IF rename_id # None THEN rename_id ELSE W.ret,
                            rename_path)

HasFileid(fid, v) ==
    /\ ~v => ~knows_all_versions
    /\ LET net == Net(TRUE, v, "ok", 0, TRUE)
           W == has_fileid(World, net, fid)
       IN  PlanHappens(W, net) /\ DatasetCommit(W, "has_fileid", 0, fid, None)

NextDataset ==
    \/ \E p \in Keys, replace_id \in KnownIds \cup {None}, l \in BOOLEAN,
          u \in {"ok", "err"} : Upload(p, replace_id, l, u)
    \/ \E fid \in KnownIds, l \in BOOLEAN, d \in 0..1 : RemoveFile(fid, l, d)
    \/ \E p \in Keys, rename_id \in KnownIds \cup {None},
          rename_path \in Keys \cup {None}, l \in BOOLEAN,
          u \in {"ok", "err"} : Rename(p, rename_id, rename_path, l, u)
    \/ \E fid \in KnownIds, v \in BOOLEAN : HasFileid(fid, v)
    \/ Restart
    \/ released = <<>> /\ Publish(FALSE)

SpecDataset == Init /\ [][NextDataset]_vars

\* =========================================================================
\* State machine of the export remote (remote.py)
\* =========================================================================

\* the answer of a verb that may be unsupported
ExportAnswer(W) ==
    IF W.exc = "UnsupportedRequest" THEN "UNSUPPORTED" ELSE Answer(W)

\* an export of a key is followed from its store over the rename that comes
\* next to the presence checks after it
MovedNext(v, k, p, new, W) ==
    IF v = "TRANSFEREXPORT STORE" /\ W.exc = "none" /\ W.requests # <<>>
       /\ \A i \in 1..Len(W.requests) : W.requests[i].status = "ok"
    THEN [pos |-> 1, key |-> k, old |-> p, new |-> 0]
    ELSE IF v = "RENAMEEXPORT" /\ W.exc = "none" /\ moved.pos = 1
            /\ k = moved.key /\ p = moved.old /\ new # p
    THEN [moved EXCEPT !.pos = 2, !.new = new]
    ELSE IF v = "CHECKPRESENTEXPORT" /\ moved.pos = 2 /\ k = moved.key
    THEN moved
    ELSE NotMoved

ExportCommit(W, v, k, p, new, ans) ==
    /\ released' = W.released
    /\ draft' = W.draft
    /\ has_draft' = W.has_draft
    /\ next_id' = W.next_id
    /\ annex_state' = W.annex_state
    /\ files_latest' = W.files_latest
    /\ files_old' = W.files_old
    /\ verb' = v
    /\ key' = k
    /\ had' = get_annex_fileid_record(World, k)
    /\ remote_file' = p
    /\ new_filename' = new
    /\ answer' = ans
    /\ exc' = W.exc
    /\ requests' = W.requests
    /\ moved' = MovedNext(v, k, p, new, W)
    /\ UNCHANGED <<file_records, knows_all_versions, same_content, s1, call,
                   otherVars>>

\* TRANSFEREXPORT STORE key file remote_file; only content already on file
\* can be refused as duplicate
ExportStore(k, p, l, u) ==
    /\ next_id <= MaxExportFileId
    /\ ~SrvOutOfLabels(World, None, mangle_directory_names(p))
    /\ u = "dup" => SrvLatestVersion(World).files # <<>>
    /\ ~l => files_latest.is_None
    /\ LET net == Net(l, TRUE, u, 0, TRUE)
           W == transferexport_store(World, net, k, p)
       IN  /\ PlanHappens(W, net)
           /\ ExportCommit(W, "TRANSFEREXPORT STORE", k, p, 0, Answer(W))

ExportCheckPresent(k, p, l) ==
    /\ ~l => files_latest.is_None
    /\ LET net == Net(l, TRUE, "ok", 0, TRUE)
           W == checkpresentexport(World, net, k, p)
       IN  /\ PlanHappens(W, net)
           /\ ExportCommit(W, "CHECKPRESENTEXPORT", k, p, 0, PresentAnswer(W))

ExportRemove(k, p, l, v, d) ==
    /\ ~l => (files_latest.is_None /\ d = 0 /\ v)
    /\ ~v => (files_old.is_None /\ l /\ d = 0)
    /\ LET net == Net(l, v, "ok", d, TRUE)
           W == removeexport(World, net, k, p)
       IN  /\ PlanHappens(W, net)
           /\ ExportCommit(W, "REMOVEEXPORT", k, p, 0, Answer(W))

\* RENAMEEXPORT key filename new_filename; curl_exists: whether the process
\* found curl, which the verb on record tells
ExportRename(k, p, new, curl_exists, l, u) ==
    /\ ~l => (files_latest.is_None /\ u = "ok")
    /\ ~curl_exists => (l /\ u = "ok")
    /\ LET net == Net(l, TRUE, u, 0, TRUE)
           W == renameexport(World, net, k, p, new, curl_exists)
       IN  /\ PlanHappens(W, net)
           /\ ExportCommit(W, IF curl_exists THEN "RENAMEEXPORT"
                               ELSE "RENAMEEXPORT without curl",
                           k, p, new, ExportAnswer(W))

NextExport ==
    \/ \E k \in Keys, p \in ExportPaths, l \in BOOLEAN,
          u \in {"ok", "err", "dup"} : ExportStore(k, p, l, u)
    \/ \E k \in Keys, p \in ExportPaths, l \in BOOLEAN :
          ExportCheckPresent(k, p, l)
    \/ \E k \in Keys, p \in ExportPaths, l \in BOOLEAN, v \in BOOLEAN,
          d \in 0..1 : ExportRemove(k, p, l, v, d)
    \/ \E k \in Keys, p \in ExportPaths, new \in ExportPaths,
          curl_exists \in BOOLEAN, l \in BOOLEAN, u \in {"ok", "err"} :
          ExportRename(k, p, new, curl_exists, l, u)
    \/ Restart
    \/ released = <<>> /\ Publish(FALSE)

SpecExport == Init /\ [][NextExport]_vars

\* =========================================================================
\* Vocabulary of the properties
\* =========================================================================

RemoteVerbs == {"STORE", "REMOVE", "RETRIEVE", "CHECKPRESENT"}

NetOk == Net(TRUE, TRUE, "ok", 0, TRUE)

\* the ids bound to a key
KeyFids(k) == get_annex_fileid_record(World, k)

Made(reqs, op, fid, status) ==
    \E i \in 1..Len(reqs) :
        reqs[i].op = op /\ reqs[i].id = fid /\ reqs[i].status = status

MadeAny(reqs, op, status) ==
    \E i \in 1..Len(reqs) : reqs[i].op = op /\ reqs[i].status = status

HttpFailed(reqs) == \E i \in 1..Len(reqs) : reqs[i].status = "err"

HttpDuplicate(reqs) == \E i \in 1..Len(reqs) : reqs[i].status = "dup"

AllOk(reqs) == \A i \in 1..Len(reqs) : reqs[i].status = "ok"

\* the ids whose delete the server confirmed
Deleted(reqs) ==
    {reqs[i].id : i \in {j \in 1..Len(reqs) :
                            reqs[j].op = "delete" /\ reqs[j].status = "ok"}}

\* the cache as the listings fetched by a handler leave it, before any other
\* change of the handler
Refreshed(reqs) ==
    IF MadeAny(reqs, "get_dataset_versions", "ok")
    THEN Loaded(AllVersionsRecords(SrvVersionListing(World)))
    ELSE IF MadeAny(reqs, "get_dataset", "ok")
    THEN Loaded(get_file_records_from_version_listing(
                    SrvLatestVersion(World), TRUE))
    ELSE file_records

\* what the cache answers once the latest version is listed
PathIdInLatest(k) == get_fileid_from_key(World, NetOk, k, TRUE).ret
CachedInLatest(f) == has_fileid_in_latest_version(World, NetOk, f).retb
CachedReleased(f) == is_released_file(World, NetOk, f).retb

\* what the cache holds
RecordedInLatest(f) ==
    /\ DictHas(file_records.recs, f)
    /\ DictGet(file_records.recs, f).is_latest_version
RecordedReleased(f) ==
    /\ DictHas(file_records.recs, f)
    /\ DictGet(file_records.recs, f).is_released

OnServer(f) == SrvHasFile(World, f)
ReleasedOnServer(f) == SrvIsReleased(World, f)

LatestIdsOnServer == {LatestFiles[i].id : i \in 1..Len(LatestFiles)}

CachedLatestIds ==
    {file_records.recs[i].id :
        i \in {j \in 1..Len(file_records.recs) :
                  file_records.recs[j].is_latest_version}}

\* =========================================================================
\* Properties
\* =========================================================================

\* C1: the round trip STORE, CHECKPRESENT, RETRIEVE, REMOVE, CHECKPRESENT of
\* a key that has no file in any version and no bound id, with every request
\* succeeding: STORE succeeds and binds exactly the new id, CHECKPRESENT
\* answers present, RETRIEVE downloads that id, REMOVE succeeds, the last
\* CHECKPRESENT answers absent and no id is bound at the end.
C1_RoundTrip ==
    /\ s1.pos = 1 => answer = "SUCCESS" /\ KeyFids(s1.key) = {s1.fid}
    /\ s1.pos = 2 => answer = "PRESENT"
    /\ s1.pos = 3 => /\ answer = "SUCCESS"
                     /\ Made(requests, "get_datafile", s1.fid, "ok")
    /\ s1.pos = 4 => answer = "SUCCESS"
    /\ s1.pos = 5 => answer = "ABSENT" /\ KeyFids(s1.key) = {}

C1_Witness == s1.pos = 5 /\ verb = "CHECKPRESENT" /\ answer = "ABSENT"

\* C2: a STORE that replaces the bound file F1 at the key's path binds the
\* id of the new upload, and unbinds F1 if F1 was not released.
C2_BindingCompleteness ==
    [][\A k \in Keys, f1 \in FileIds :
          (verb' = "STORE" /\ key' = k /\ ~same_content'
           /\ Made(requests', "replace", f1, "ok") /\ f1 \in KeyFids(k))
          => /\ next_id \in KeyFids(k)'
             /\ (~ReleasedOnServer(f1) => f1 \notin KeyFids(k)')]_vars

\* C3: a STORE that replaces the bound and released file F1 by F2 keeps the
\* record of F1 (released, not in the latest version), records F2 as part of
\* the latest version, and binds both ids.
C3_ReleaseSurvival ==
    [][\A k \in Keys, f1 \in FileIds :
          (verb' = "STORE" /\ key' = k /\ ~same_content'
           /\ Made(requests', "replace", f1, "ok")
           /\ f1 \in KeyFids(k) /\ CachedReleased(f1))
          => /\ RecordedReleased(f1)'
             /\ ~RecordedInLatest(f1)'
             /\ RecordedInLatest(next_id)'
             /\ {f1, next_id} \subseteq KeyFids(k)']_vars

\* C4: no key is bound to an id that is gone from all versions of the
\* dataset, and a bound id that is part of a released version stays bound.
C4_BindingInvariant ==
    [][\A k \in Keys, f \in FileIds :
          /\ f \in KeyFids(k)' => OnServer(f)'
          /\ (f \in KeyFids(k) /\ ReleasedOnServer(f)) => f \in KeyFids(k)']_vars

\* C5: a REMOVE that deletes a bound id that is in the latest version and is
\* released keeps its record, marked as not in the latest version, and keeps
\* the id bound.
C5_RemoveReleased ==
    [][\A k \in Keys, f \in FileIds :
          (verb' = "REMOVE" /\ key' = k /\ Made(requests', "delete", f, "ok")
           /\ f \in KeyFids(k) /\ CachedReleased(f))
          => /\ DictHas(file_records'.recs, f)
             /\ ~RecordedInLatest(f)'
             /\ f \in KeyFids(k)']_vars

\* C6 as claimed: a REMOVE all of whose requests succeed deletes the id found
\* at the key's path in the latest version, whatever ids are bound.
C6_RemoveTargetsUnion ==
    [][\A k \in Keys :
          (verb' = "REMOVE" /\ key' = k /\ AllOk(requests')
           /\ PathIdInLatest(k) # None)
          => Made(requests', "delete", PathIdInLatest(k), "ok")]_vars

\* C6: REMOVE targets the ids bound to the key and, only when none is bound,
\* the id found at the key's path in the latest version: it requests no
\* delete of another id, and when all requests succeed it has deleted every
\* target that the cache lists in the latest version.
C6_RemoveTargets ==
    [][\A k \in Keys :
          (verb' = "REMOVE" /\ key' = k)
          => LET targets == IF KeyFids(k) # {} THEN KeyFids(k)
                            ELSE {PathIdInLatest(k)} \ {None}
             IN  /\ \A i \in 1..Len(requests') :
                        requests'[i].op = "delete" => requests'[i].id \in targets
                 /\ AllOk(requests') =>
                        \A f \in targets :
                            CachedInLatest(f) => Made(requests', "delete", f, "ok")
          ]_vars

\* a REMOVE that succeeded without a delete although the latest version holds
\* a file at the key's path: the bound id is another one
C6_Witness ==
    /\ verb = "REMOVE" /\ answer = "SUCCESS"
    /\ ~MadeAny(requests, "delete", "ok")
    /\ KeyFids(key) # {}
    /\ FilesHavePath(LatestFiles, KeyPath(key))

\* C7: a STORE of the content that is on file for the key answers success,
\* whether the server accepts the request or refuses it as duplicate content,
\* and a CHECKPRESENT of the key that follows answers present.
C7_DuplicateTolerance ==
    [][/\ (verb' = "STORE" /\ same_content' /\ ~HttpFailed(requests'))
          => answer' = "SUCCESS"
       /\ (verb = "STORE" /\ same_content /\ ~HttpFailed(requests)
           /\ verb' = "CHECKPRESENT" /\ key' = key /\ AllOk(requests'))
          => answer' = "PRESENT"]_vars

\* C8: a STORE whose upload or replace request is refused as duplicate
\* content answers success and changes no binding and no cached record (the
\* cache is at most populated from the listing of the latest version).
C8_DuplicateFrame ==
    [][(verb' = "STORE" /\ HttpDuplicate(requests'))
          => /\ answer' = "SUCCESS"
             /\ annex_state' = annex_state
             /\ file_records' = Refreshed(requests')
             /\ knows_all_versions' = knows_all_versions]_vars

C8_Witness ==
    /\ verb = "STORE" /\ answer = "SUCCESS"
    /\ MadeAny(requests, "replace", "dup")
    /\ KeyFids(key) # {}

\* C9 as claimed: a verb one of whose requests fails answers failure and
\* leaves every binding and the cached records as they were (the cache is at
\* most refreshed from a listing that the verb fetched).
C9_FailureFrame ==
    [][(verb' \in RemoteVerbs /\ HttpFailed(requests'))
          => /\ answer' = "FAILURE"
             /\ annex_state' = annex_state
             /\ file_records' = Refreshed(requests')]_vars

\* C9: a verb one of whose requests fails answers failure; bindings change
\* only by the unbinding, from the verb's key, of ids whose delete the server
\* confirmed earlier in the same REMOVE, and the cached records of all other
\* ids are as they were (the cache is at most refreshed from a listing that
\* the verb fetched).
C9_FailureFrameConfirmed ==
    [][(verb' \in RemoteVerbs /\ HttpFailed(requests'))
          => LET D == Deleted(requests')
                 Others(recs) == SelectSeq(recs, LAMBDA r : r.id \notin D)
             IN  /\ answer' = "FAILURE"
                 /\ \A k \in Keys :
                       /\ KeyFids(k)' \subseteq KeyFids(k)
                       /\ KeyFids(k) \ KeyFids(k)' \subseteq
                              (IF k = key' THEN D ELSE {})
                 /\ file_records'.is_None = Refreshed(requests').is_None
                 /\ Others(file_records'.recs)
                        = Others(Refreshed(requests').recs)]_vars

\* a REMOVE with two targets whose second delete failed after the first was
\* confirmed
C9_Witness ==
    /\ verb = "REMOVE" /\ answer = "FAILURE"
    /\ MadeAny(requests, "delete", "ok")
    /\ MadeAny(requests, "delete", "err")

\* C10: after the all-versions expansion the records marked as latest are
\* exactly the files of the latest version of the dataset.
C10_VersionOrdering ==
    [][(verb' \in {"CHECKPRESENT", "RETRIEVE"}
        /\ MadeAny(requests', "get_dataset_versions", "ok"))
          => CachedLatestIds' = LatestIdsOnServer']_vars

\* the ids of the files of the DRAFT version
DraftIds == {draft[i].id : i \in 1..Len(draft)}

\* the version listing holds a DRAFT and the released versions 2.0 and 1.0
ListingDraft20And10 ==
    /\ has_draft
    /\ Len(released) = 2
    /\ released[1].versionNumber = 1 /\ released[1].versionMinorNumber = 0
    /\ released[2].versionNumber = 2 /\ released[2].versionMinorNumber = 0

\* C11: the all-versions expansion of a listing with a DRAFT and the released
\* versions 2.0 and 1.0 marks exactly the ids of the DRAFT as latest, and
\* marks an id that is in the DRAFT and in a released version as released.
C11_DraftAndReleases ==
    [][(verb' \in {"CHECKPRESENT", "RETRIEVE"}
        /\ MadeAny(requests', "get_dataset_versions", "ok")
        /\ ListingDraft20And10)
          => /\ CachedLatestIds' = DraftIds
             /\ \A f \in DraftIds :
                    ReleasedOnServer(f) => RecordedReleased(f)']_vars

\* a request of the version listing, whatever its outcome
AskedVersions(reqs) ==
    \E i \in 1..Len(reqs) : reqs[i].op = "get_dataset_versions"

\* C12: within one process, once the version listing was fetched the flag
\* stays set and the listing is never requested again; a failed request of
\* the listing leaves the flag unset and the cached records as they were, and
\* the next lookup over all versions (a CHECKPRESENT) requests it again.
C12_OneShotExpansion ==
    [][(verb' \in RemoteVerbs) =>
          /\ knows_all_versions =>
                knows_all_versions' /\ ~AskedVersions(requests')
          /\ MadeAny(requests', "get_dataset_versions", "ok") =>
                knows_all_versions'
          /\ MadeAny(requests', "get_dataset_versions", "err") =>
                /\ ~knows_all_versions'
                /\ file_records' = file_records
          /\ (~knows_all_versions /\ verb' = "CHECKPRESENT") =>
                AskedVersions(requests')]_vars

\* a CHECKPRESENT in all-versions mode that followed a verb of the same
\* process and sent no request
C12_Witness ==
    /\ knows_all_versions
    /\ verb = "CHECKPRESENT" /\ answer = "PRESENT"
    /\ requests = <<>>

\* the requests of a CHECKPRESENT only populate the cache: at most one
\* listing of the latest version and at most one listing of all versions
OnlyPopulates(reqs) ==
    /\ \A i \in 1..Len(reqs) :
           reqs[i].op \in {"get_dataset", "get_dataset_versions"}
    /\ \A i, j \in 1..Len(reqs) : reqs[i].op = reqs[j].op => i = j

\* C13 as claimed: a CHECKPRESENT that follows a CHECKPRESENT of the same
\* key gives the same answer and sends no request; a CHECKPRESENT sends at
\* most the requests that populate the cache.
C13_CheckPresentIdempotent ==
    [][/\ verb' = "CHECKPRESENT" => OnlyPopulates(requests')
       /\ (verb = "CHECKPRESENT" /\ verb' = "CHECKPRESENT" /\ key' = key)
          => answer' = answer /\ requests' = <<>>]_vars

\* C13: a CHECKPRESENT that follows a CHECKPRESENT of the same key that
\* answered present or absent gives the same answer and sends no request; a
\* CHECKPRESENT sends at most the requests that populate the cache.
C13_CheckPresentIdempotentAnswered ==
    [][/\ verb' = "CHECKPRESENT" => OnlyPopulates(requests')
       /\ (verb = "CHECKPRESENT" /\ answer \in {"PRESENT", "ABSENT"}
           /\ verb' = "CHECKPRESENT" /\ key' = key)
          => answer' = answer /\ requests' = <<>>]_vars

\* a CHECKPRESENT without request that answers absent for a key without id
C13_Witness ==
    /\ verb = "CHECKPRESENT" /\ answer = "ABSENT"
    /\ requests = <<>>
    /\ KeyFids(key) = {}
    /\ knows_all_versions

\* the cached ids, of any version, whose record has the key's path
RecordedAtPath(k) ==
    {file_records.recs[i].id :
        i \in {j \in 1..Len(file_records.recs) :
                  file_records.recs[j].path = KeyPath(k)}}

\* C14: a CHECKPRESENT that answers.  Without id bound to the key it looks
\* the key's path up over all versions: it answers present and binds exactly
\* one id recorded at that path, or, when no id is recorded there, answers
\* absent and binds nothing.  With ids bound it answers present iff one of
\* them has a record in the all-versions cache, and leaves the binding.
C14_CheckPresentLookup ==
    [][\A k \in Keys :
          (verb' = "CHECKPRESENT" /\ key' = k /\ answer' # "FAILURE")
          => /\ knows_all_versions'
             /\ KeyFids(k) = {} =>
                   IF RecordedAtPath(k)' # {}
                   THEN /\ answer' = "PRESENT"
                        /\ \E f \in RecordedAtPath(k)' : KeyFids(k)' = {f}
                   ELSE answer' = "ABSENT" /\ KeyFids(k)' = {}
             /\ KeyFids(k) # {} =>
                   /\ answer' = "PRESENT" <=>
                         \E f \in KeyFids(k) : DictHas(file_records'.recs, f)
                   /\ KeyFids(k)' = KeyFids(k)]_vars

\* a CHECKPRESENT that found the file of a key without bound id and bound it
C14_Witness ==
    /\ verb = "CHECKPRESENT" /\ answer = "PRESENT"
    /\ had = {}
    /\ KeyFids(key) # {}

AskedDownload(reqs) == \E i \in 1..Len(reqs) : reqs[i].op = "get_datafile"

\* C15: RETRIEVE fails as unavailable, without download request, exactly when
\* no id is bound to the key and the all-versions cache holds no record at
\* the key's path; otherwise, unless a listing request failed, it requests
\* the download of a bound id or, without binding, of an id recorded at the
\* path.  It changes no binding.
C15_RetrieveUnavailable ==
    [][\A k \in Keys :
          (verb' = "RETRIEVE" /\ key' = k)
          => /\ annex_state' = annex_state
             /\ exc' = "RemoteError" <=>
                   /\ KeyFids(k) = {}
                   /\ knows_all_versions'
                   /\ RecordedAtPath(k)' = {}
             /\ exc' = "RemoteError" =>
                   answer' = "FAILURE" /\ ~AskedDownload(requests')
             /\ (exc' # "RemoteError"
                 /\ (KeyFids(k) # {} \/ knows_all_versions'))
                => \E f \in (IF KeyFids(k) # {} THEN KeyFids(k)
                              ELSE RecordedAtPath(k)') :
                      \E st \in {"ok", "err"} :
                         Made(requests', "get_datafile", f, st)]_vars

\* a RETRIEVE of a key without bound id and without file in any version
C15_Witness ==
    /\ verb = "RETRIEVE" /\ exc = "RemoteError" /\ answer = "FAILURE"
    /\ had = {}
    /\ knows_all_versions
    /\ file_records.recs # <<>>

AskedDelete(reqs) == \E i \in 1..Len(reqs) : reqs[i].op = "delete"

\* the ids that a REMOVE of the key hands to _remove_file
RemoveTargets(k) ==
    IF KeyFids(k) # {} THEN KeyFids(k) ELSE {PathIdInLatest(k)} \ {None}

LatestIn(recs) ==
    {recs[i].id : i \in {j \in 1..Len(recs) : recs[j].is_latest_version}}

Expanded == ensure_file_records_for_all_versions(World, NetOk)

\* the object as a call left it, and as an expanding query leaves it then
Views == {World, Expanded}

UploadedNew == verb = "upload_file" /\ answer = "SUCCESS" /\ call.id = None

\* what the queries answer for an uploaded id F and its path argument p
UploadConsistent(F, p) ==
    /\ has_fileid(World, NetOk, F).retb
    /\ has_path(World, NetOk, p).retb
    /\ get_fileid_from_path(World, NetOk, p, FALSE).ret = F
    /\ \A W \in Views :
          /\ has_fileid_in_latest_version(W, NetOk, F).retb
          /\ has_path_in_latest_version(W, NetOk, p).retb
          /\ get_fileid_from_path(W, NetOk, p, TRUE).ret = F
          /\ ~is_released_file(W, NetOk, F).retb

\* C17 as claimed: after a successful upload_file(local, p) without
\* replace_id that returned F, has_fileid(F), has_fileid_in_latest_version(F),
\* has_path(p) and has_path_in_latest_version(p) answer true,
\* get_fileid_from_path(p) answers F for both values of latest_only, and
\* is_released_file(F) answers false.
C17_UploadConsistency ==
    UploadedNew => UploadConsistent(call.ret, key)

\* C17: the same, for an upload to a path at which the latest version had no
\* file at the call.
C17_UploadConsistencyFreePath ==
    (UploadedNew /\ ~call.taken) => UploadConsistent(call.ret, key)

\* an upload to a path at which a released version has another file
C17_Witness ==
    /\ UploadedNew /\ ~call.taken
    /\ \E i \in 1..Len(released) :
          FilesHavePath(released[i].files, ODD_mangle_path(key))
    /\ ~ReleasedOnServer(call.ret)

ReplacedFile == verb = "upload_file" /\ answer = "SUCCESS" /\ call.id # None

\* C18: after a successful upload_file(local, p, replace_id = F_old) of an
\* F_old that was in the latest version and is in no released version, the
\* returned id differs from F_old, has_fileid(F_old) answers false,
\* has_fileid of the returned id answers true, and
\* has_path_in_latest_version(p) answers true.
C18_ReplaceConsistency ==
    (ReplacedFile /\ ~ReleasedOnServer(call.id))
    => /\ call.ret # call.id
       /\ ~has_fileid(World, NetOk, call.id).retb
       /\ has_fileid(World, NetOk, call.ret).retb
       /\ \A W \in Views : has_path_in_latest_version(W, NetOk, key).retb

\* a file replaced and given another path at once, by an object that knows
\* all versions
C18_Witness ==
    /\ ReplacedFile /\ ~ReleasedOnServer(call.id)
    /\ call.old_path \notin {None, ODD_mangle_path(key)}
    /\ knows_all_versions
    /\ released # <<>>

RemovedFile == verb = "remove_file" /\ answer = "SUCCESS"

\* the path argument that the codec rewrites into the stored path mp
UnmangledPath(mp) == mp - 10

\* some version of the dataset holds a file at the stored path mp
PathOnServer(mp) ==
    \/ has_draft /\ FilesHavePath(draft, mp)
    \/ \E i \in 1..Len(released) : FilesHavePath(released[i].files, mp)

\* C19: after a successful remove_file(F) of an F that is in no released
\* version and was at path p, no version holding another file at p:
\* has_fileid(F), has_fileid_in_latest_version(F), has_path(p) and
\* has_path_in_latest_version(p) answer false, get_fileid_from_path(p)
\* answers None for both values of latest_only, and is_released_file(F)
\* answers false.
C19_RemoveConsistency ==
    (RemovedFile /\ ~ReleasedOnServer(call.id) /\ ~PathOnServer(call.old_path))
    => LET F == call.id
           p == UnmangledPath(call.old_path)
       IN  /\ ~has_fileid(World, NetOk, F).retb
           /\ ~has_path(World, NetOk, p).retb
           /\ get_fileid_from_path(World, NetOk, p, FALSE).ret = None
           /\ \A W \in Views :
                 /\ ~has_fileid_in_latest_version(W, NetOk, F).retb
                 /\ ~has_path_in_latest_version(W, NetOk, p).retb
                 /\ get_fileid_from_path(W, NetOk, p, TRUE).ret = None
                 /\ ~is_released_file(W, NetOk, F).retb

\* a file removed by an object that knew all versions of a dataset with a
\* released version
C19_Witness ==
    /\ RemovedFile /\ ~ReleasedOnServer(call.id)
    /\ ~PathOnServer(call.old_path)
    /\ knows_all_versions
    /\ released # <<>>

RenamedById == verb = "rename_file" /\ answer = "SUCCESS"

AskedRename(reqs) == \E i \in 1..Len(reqs) : reqs[i].op = "rename"

ExportPathId(recs, path) ==
    LET existing_id == SelectSeq(recs, LAMBDA f : f.path = path)
    IN  IF existing_id = <<>> THEN None ELSE existing_id[1].id

ExportHasPath(recs, path) == \E i \in 1..Len(recs) : recs[i].path = path

\* C23: CHECKPRESENTEXPORT(K, rpath) with an id on record for K answers
\* present exactly when the id found at rpath in the latest version is the
\* id on record for K; with no id on record it answers present exactly when
\* a record of the latest version has the mangled path of rpath.
C23_CheckPresentExport ==
    [][(verb' = "CHECKPRESENTEXPORT" /\ answer' # "FAILURE")
       => LET recs == files_latest'.recs
              rpath == mangle_directory_names(remote_file')
          IN  IF had' # {}
              THEN answer' = "PRESENT" <=> ExportPathId(recs, rpath) \in had'
              ELSE answer' = "PRESENT" <=> ExportHasPath(recs, rpath)]_vars

\* C22: after a TRANSFEREXPORT STORE of a key at a path and a successful
\* RENAMEEXPORT of the key from that path to another one, CHECKPRESENTEXPORT
\* of the key answers present for the new path and absent for the old path.
C22_ExportRenameMoves ==
    (moved.pos = 2 /\ verb = "CHECKPRESENTEXPORT" /\ answer # "FAILURE")
    => /\ remote_file = moved.new => answer = "PRESENT"
       /\ remote_file = moved.old => answer = "ABSENT"

\* the id that RENAMEEXPORT of the file at old_rpath resolves in the latest
\* version as the remote has it on file
RenameSource == ExportPathId(files_latest'.recs,
                             mangle_directory_names(remote_file'))

RenameVerbs == {"RENAMEEXPORT", "RENAMEEXPORT without curl"}

RemoveSource == ExportPathId(
    IF MadeAny(requests', "get_dataset", "ok")
    THEN ExportRecordsOf(SrvLatestVersion(World),
                         SrvLatestVersion(World).versionState = "RELEASED")
    ELSE files_latest.recs,
    mangle_directory_names(remote_file'))

\* C25: REMOVEEXPORT(K, rpath) acts only on the id found at rpath in the
\* latest version: every delete that it requests is for that id, and it
\* requests none when no file of the latest version is at rpath.
C25_RemoveExportByPath ==
    [][verb' = "REMOVEEXPORT"
       => \A i \in 1..Len(requests') :
             requests'[i].op = "delete" => requests'[i].id = RemoveSource]_vars

\* the ids whose replacement the server confirmed
ReplacedIds(reqs) ==
    {reqs[i].id : i \in {j \in 1..Len(reqs) :
                            reqs[j].op = "replace" /\ reqs[j].status = "ok"}}

\* C26: a successful TRANSFEREXPORT STORE to a path that names a file F_old
\* of the latest version replaces it; afterwards F_old is gone from the
\* filelist of the latest version, a lookup of the path resolves to the new
\* id, and F_old is no longer on record for the key.
C26_ExportStoreReplaces ==
    [][(verb' = "TRANSFEREXPORT STORE" /\ answer' = "SUCCESS"
        /\ ReplacedIds(requests') # {})
       => \A F_old \in ReplacedIds(requests') :
             /\ ~DictHas(files_latest'.recs, F_old)
             /\ ExportPathId(files_latest'.recs,
                             mangle_directory_names(remote_file')) = next_id
             /\ F_old \notin {annex_state'[key'][i] :
                                 i \in 1..Len(annex_state'[key'])}]_vars

\* =========================================================================
\* utils.py: format_doi.  A str is the sequence of its characters.
\* =========================================================================

\* the variables of the remotes and of the dataset on the server
remoteVars == <<released, draft, has_draft, next_id, file_records,
                knows_all_versions, annex_state, verb, key, had, same_content,
                answer, exc, requests, s1, call, exportVars>>

\* the variables that the functions of utils.py and prepare() leave alone
restVars == <<remoteVars, keystate, procs, pair>>

\* the values that a caller may hand over: None, an int, or a str
PyNone == [type |-> "NoneType", str |-> <<>>]
PyInt == [type |-> "int", str |-> <<>>]
PyStr(chars) == [type |-> "str", str |-> chars]

StartsWith(str, prefix) ==
    Len(str) >= Len(prefix) /\ SubSeq(str, 1, Len(prefix)) = prefix

DropPrefix(str, n) == SubSeq(str, n + 1, Len(str))

\* "doi:"
DoiScheme == <<"d", "o", "i", ":">>

\* "http" and "://doi.org/"
HttpScheme == <<"h", "t", "t", "p">>
DoiOrg == <<":", "/", "/", "d", "o", "i", ".", "o", "r", "g", "/">>

\* a url_doi_pattern that takes http only
UrlDoiMatch_http(str) ==
    IF StartsWith(str, HttpScheme \o DoiOrg)
    THEN Len(HttpScheme) + Len(DoiOrg)
    ELSE 0

\* re.match(r'^https?:\/\/doi\.org\/', str): the length of the match, 0
\* without a match
UrlDoiMatch(str) ==
    IF StartsWith(str, HttpScheme \o <<"s">> \o DoiOrg)
    THEN Len(HttpScheme) + 1 + Len(DoiOrg)
    ELSE IF StartsWith(str, HttpScheme \o DoiOrg)
    THEN Len(HttpScheme) + Len(DoiOrg)
    ELSE 0

Raised(e) == [exc |-> e, ret |-> <<>>]
Returned(str) == [exc |-> "none", ret |-> str]

format_doi(doi_in) ==
    IF doi_in.type = "NoneType" THEN Raised("ValueError")
    ELSE IF doi_in.type # "str" THEN Raised("TypeError")
    ELSE IF Len(doi_in.str) = 0 THEN Raised("ValueError")
    ELSE IF StartsWith(doi_in.str, DoiScheme) THEN Returned(doi_in.str)
    ELSE IF UrlDoiMatch(doi_in.str) > 0
    THEN Returned(DoiScheme \o DropPrefix(doi_in.str, UrlDoiMatch(doi_in.str)))
    ELSE Returned(DoiScheme \o doi_in.str)

\* the strings handed to format_doi: a head and an identifier
DoiHeads ==
    {<<>>, DoiScheme, HttpScheme \o DoiOrg, HttpScheme \o <<"s">> \o DoiOrg,
     HttpScheme \o <<"s", "s">> \o DoiOrg, <<"D", "O", "I", ":">>,
     <<" ">> \o DoiScheme, HttpScheme \o <<":", "/", "/", "d", "o", "i", "/">>,
     <<"f", "t", "p">> \o DoiOrg}

DoiIdentifiers ==
    {<<>>, <<"s", "o", "m", "e">>, <<"1", "0", ".", "5", "/", "F", "K">>,
     DoiScheme \o <<"1">>, HttpScheme \o DoiOrg \o <<"1">>,
     <<"1", "/">>, <<"d", "o", "i">>}

DoiInputs ==
    {PyNone, PyInt} \cup {PyStr(h \o x) : h \in DoiHeads, x \in DoiIdentifiers}

NotCalled == [exc |-> "not called", ret |-> <<>>]

\* a caller formats a value
FormatDoi(doi_in) ==
    /\ doi.pc = "idle"
    /\ doi' = [pc |-> "called", doi_in |-> doi_in, res |-> format_doi(doi_in),
               again |-> NotCalled]
    /\ UNCHANGED <<restVars, prep, codec>>

\* and formats the result once more
FormatDoiAgain ==
    /\ doi.pc = "called" /\ doi.res.exc = "none" /\ doi.again = NotCalled
    /\ doi' = [doi EXCEPT !.again = format_doi(PyStr(doi.res.ret))]
    /\ UNCHANGED <<restVars, prep, codec>>

FormatDoiReturn ==
    /\ doi.pc = "called"
    /\ doi' = NoDoi
    /\ UNCHANGED <<restVars, prep, codec>>

NextDoi ==
    \/ \E doi_in \in DoiInputs : FormatDoi(doi_in)
    \/ FormatDoiAgain
    \/ FormatDoiReturn

SpecDoi == Init /\ [][NextDoi]_vars

Chr ==
    [a |-> 97, dot |-> 46, underscore |-> 95, esc |-> 45, space |-> 32,
     colon |-> 58, percent |-> 37, D |-> 68, u |-> 117, uuml |-> 252,
     dog |-> 128054]

IsAlnum(c) == c \in (48..57) \cup (65..90) \cup (97..122)

\* c in DATAVERSE_DIRNAME_SAFE
DATAVERSE_DIRNAME_SAFE(c) ==
    c \in 32..126 /\ (IsAlnum(c) \/ c \in {46, 95, 45, 32})

\* c in DATAVERSE_FILENAME_SAFE: not one of / : * ? " < > | ; #
DATAVERSE_FILENAME_SAFE(c) ==
    c \in 32..126 /\ c \notin {47, 58, 42, 63, 34, 60, 62, 124, 59, 35}

\* unidecode.unidecode: ASCII stays, a letter with a diacritic becomes its
\* base letter, a character without transliteration is dropped
RECURSIVE unidecode(_)
unidecode(name) ==
    IF name = <<>> THEN <<>>
    ELSE (IF Head(name) < 128 THEN <<Head(name)>>
          ELSE IF Head(name) = Chr.uuml THEN <<Chr.u>>
          ELSE <<>>) \o unidecode(Tail(name))

\* f"_not_representable_{n}", n < 10
not_representable(n) ==
    <<95, 110, 111, 116, 95, 114, 101, 112, 114, 101, 115, 101, 110, 116, 97,
      98, 108, 101, 95, 48 + n>>

\* one digit of f"{n:02X}"
HexDigit(n) == IF n < 10 THEN 48 + n ELSE 55 + n

\* _dataverse_quote(name, safe) with esc = "-"; dirname: safe is
\* DATAVERSE_DIRNAME_SAFE, else DATAVERSE_FILENAME_SAFE
RECURSIVE dataverse_quote(_, _)
dataverse_quote(name, dirname) ==
    IF name = <<>> THEN <<>>
    ELSE LET c == Head(name)
             safe == IF dirname THEN DATAVERSE_DIRNAME_SAFE(c)
                     ELSE DATAVERSE_FILENAME_SAFE(c)
         IN  (IF ~safe \/ c = Chr.esc
              THEN <<Chr.esc, HexDigit(c \div 16), HexDigit(c % 16)>>
              ELSE <<c>>) \o dataverse_quote(Tail(name), dirname)

\* TO_ENCODE.get(name[0], name[0]) + name[1:]
encode_leading_dot(name) ==
    (IF name[1] = Chr.dot THEN <<Chr.underscore, Chr.dot>>
     ELSE IF name[1] = Chr.underscore THEN <<Chr.underscore, Chr.underscore>>
     ELSE <<name[1]>>) \o Tail(name)

\* _dataverse_dirname_quote and _dataverse_filename_quote
dataverse_name_quote(name, dirname) ==
    LET ascii_name == IF unidecode(name) # <<>> THEN unidecode(name)
                      ELSE not_representable(Len(name))
    IN  encode_leading_dot(dataverse_quote(ascii_name, dirname))

\* Path(p).parts: a name "." is no part of a path
PathParts(path) == SelectSeq(path, LAMBDA name : name # <<Chr.dot>>)

\* is_dir: local_path.is_dir()
mangle_path(path, is_dir) ==
    LET parts == PathParts(path)
        n == Len(parts)
    IN  [i \in 1..n |-> dataverse_name_quote(parts[i], is_dir \/ i < n)]

\* int(character, 16), -1 for a ValueError
HexValue(c) ==
    IF c \in 48..57 THEN c - 48
    ELSE IF c \in 65..70 THEN c - 55
    ELSE IF c \in 97..102 THEN c - 87
    ELSE -1

\* the loop of _dataverse_unquote_escaped from the character at index on
RECURSIVE unquote_loop(_, _, _, _, _)
unquote_loop(quoted_name, index, state, code, unquoted_name) ==
    IF index > Len(quoted_name)
    THEN IF state # 0 THEN Raised("ValueError") ELSE Returned(unquoted_name)
    ELSE LET character == quoted_name[index]
         IN  IF state = 0
             THEN IF character = Chr.esc
                  THEN unquote_loop(quoted_name, index + 1, 1, 0, unquoted_name)
                  ELSE unquote_loop(quoted_name, index + 1, 0, code,
                                    Append(unquoted_name, character))
             ELSE IF HexValue(character) < 0 THEN Raised("ValueError")
             ELSE IF state = 1
             THEN unquote_loop(quoted_name, index + 1, 2,
                               16 * HexValue(character), unquoted_name)
             ELSE unquote_loop(quoted_name, index + 1, 0, 0,
                               Append(unquoted_name,
                                      code + HexValue(character)))

\* _dataverse_unquote: TO_DECODE on the first two characters, then
\* _dataverse_unquote_escaped
dataverse_unquote(quoted_name) ==
    unquote_loop(
        IF Len(quoted_name) >= 2 /\ quoted_name[1] = Chr.underscore
           /\ quoted_name[2] \in {Chr.dot, Chr.underscore}
        THEN Tail(quoted_name) ELSE quoted_name,
        1, 0, 0, <<>>)

unmangle_path(dataverse_path) ==
    LET parts == PathParts(dataverse_path)
    IN  IF \E i \in 1..Len(parts) : dataverse_unquote(parts[i]).exc # "none"
        THEN Raised("ValueError")
        ELSE Returned(PathParts(
                [i \in 1..Len(parts) |-> dataverse_unquote(parts[i]).ret]))

\* the names of up to n characters
MaxNameLen == 3
CodecChars ==
    {Chr.a, Chr.dot, Chr.underscore, Chr.esc, Chr.space, Chr.colon,
     Chr.percent, Chr.D, Chr.uuml, Chr.dog}
Names(n) == UNION {[1..m -> CodecChars] : m \in 1..n}

\* a name, or a directory and a name in it
CodecPaths ==
    {<<name>> : name \in Names(MaxNameLen)}
    \cup {<<d, name>> : d \in Names(MaxNameLen - 1), name \in Names(1)}

\* mangle_path(path); is_dir: the path is a directory of the local file system
MangleCall(path, is_dir) ==
    /\ codec.pc = "idle"
    /\ PathParts(path) = <<>> => is_dir
    /\ codec' = [pc |-> "mangled", path |-> path, is_dir |-> is_dir,
                 mangled |-> mangle_path(path, is_dir), res |-> NotCalled]
    /\ UNCHANGED <<restVars, prep, doi>>

\* unmangle_path of the result
UnmangleCall ==
    /\ codec.pc = "mangled"
    /\ codec' = [codec EXCEPT !.pc = "unmangled",
                              !.res = unmangle_path(codec.mangled)]
    /\ UNCHANGED <<restVars, prep, doi>>

CodecReturn ==
    /\ codec.pc = "unmangled"
    /\ codec' = NoPath
    /\ UNCHANGED <<restVars, prep, doi>>

NextCodec ==
    \/ \E path \in CodecPaths, is_dir \in BOOLEAN : MangleCall(path, is_dir)
    \/ UnmangleCall
    \/ CodecReturn

SpecCodec == Init /\ [][NextCodec]_vars

\* C28: for every path whose names are non-empty strings of printable
\* characters, unmangle_path(mangle_path(path)) is the path.
C28_CodecRoundTrip ==
    codec.pc = "unmangled" => codec.res = Returned(PathParts(codec.path))

\* C29: every directory name of mangle_path(path) begins with a character
\* that is neither ".", nor "-", nor a space.
C29_DirnameLeadingChar ==
    codec.pc # "idle" =>
    \A i \in 1..Len(codec.mangled) :
        (codec.is_dir \/ i < Len(codec.mangled))
        => codec.mangled[i][1] \notin {Chr.dot, Chr.esc, Chr.space}

\* =========================================================================
\* baseremote.py: prepare(), with OnlineDataverseDataset.__init__
\* =========================================================================

\* str.rstrip('/')
RECURSIVE RStrip(_)
RStrip(str) ==
    IF str # <<>> /\ str[Len(str)] = "/"
    THEN RStrip(SubSeq(str, 1, Len(str) - 1))
    ELSE str

\* the values of the configuration of the remote: url and doi
ConfigUrls == {<<>>, <<"/">>, <<"u">>, <<"u", "/">>}
ConfigDois ==
    {<<>>, <<"1">>, DoiScheme \o <<"1">>, HttpScheme \o DoiOrg \o <<"1">>,
     HttpScheme \o <<"s">> \o DoiOrg \o <<"1">>, <<"D", "O", "I", ":", "1">>}

\* a test of the status code that lets a 400 pass
DatasetFound_lenient(status_code) == status_code <= 400

\* dv_ds.status_code < 400
DatasetFound(status_code) == status_code < 400

\* an exception ends prepare()
PrepareRaise(P, e) == [P EXCEPT !.pc = "failed", !.exc = e]

\* url = self.annex.getconfig('url').rstrip('/')
PrepareUrl(url) ==
    /\ prep.pc = "idle"
    /\ prep' = LET P == [pc |-> "doi", url_in |-> url, url |-> RStrip(url),
                         doi_in |-> <<>>, doi |-> <<>>, token |-> FALSE,
                         info |-> "none", status_code |-> 0,
                         credential |-> "none", exc |-> "none"]
               IN  IF RStrip(url) = <<>> THEN PrepareRaise(P, "ValueError")
                   ELSE P
    /\ UNCHANGED <<restVars, codec, doi>>

\* doi = self.annex.getconfig('doi'); doi = format_doi(doi)
PrepareDoi(d) ==
    /\ prep.pc = "doi"
    /\ prep' = IF d = <<>>
               THEN PrepareRaise([prep EXCEPT !.doi_in = d], "ValueError")
               ELSE IF format_doi(PyStr(d)).exc # "none"
               THEN PrepareRaise([prep EXCEPT !.doi_in = d],
                                 format_doi(PyStr(d)).exc)
               ELSE [prep EXCEPT !.pc = "obtain", !.doi_in = d,
                                 !.doi = format_doi(PyStr(d)).ret]
    /\ UNCHANGED <<restVars, codec, doi>>

\* credman.obtain(...); apitoken = cred['secret']
PrepareObtain(obtained) ==
    /\ prep.pc = "obtain"
    /\ prep' = IF ~obtained THEN PrepareRaise(prep, "ValueError")
               ELSE [prep EXCEPT !.pc = "info", !.token = TRUE]
    /\ UNCHANGED <<restVars, codec, doi>>

\* OnlineDataverseDataset.__init__: api.get_info_version()
PrepareInfoVersion(status) ==
    /\ prep.pc = "info"
    /\ prep' = IF status # "OK"
               THEN PrepareRaise([prep EXCEPT !.info = status], "RuntimeError")
               ELSE [prep EXCEPT !.pc = "dataset", !.info = status]
    /\ UNCHANGED <<restVars, codec, doi>>

\* OnlineDataverseDataset.__init__: api.get_dataset(identifier=dsid)
PrepareGetDataset(status_code) ==
    /\ prep.pc = "dataset"
    /\ prep' = IF ~DatasetFound(status_code)
               THEN PrepareRaise([prep EXCEPT !.status_code = status_code],
                                 "RuntimeError")
               ELSE [prep EXCEPT !.pc = "save", !.status_code = status_code]
    /\ UNCHANGED <<restVars, codec, doi>>

\* credman.set(credential_name, _lastused=True, **cred)
PrepareSave ==
    /\ prep.pc = "save"
    /\ prep' = [prep EXCEPT !.pc = "done", !.credential = "lastused"]
    /\ UNCHANGED <<restVars, codec, doi>>

\* another remote process, with a credential store of its own
PrepareAgain ==
    /\ prep.pc \in {"done", "failed"}
    /\ prep' = NoPrepare
    /\ UNCHANGED <<restVars, codec, doi>>

NextPrepare ==
    \/ \E url \in ConfigUrls : PrepareUrl(url)
    \/ \E d \in ConfigDois : PrepareDoi(d)
    \/ \E obtained \in BOOLEAN : PrepareObtain(obtained)
    \/ \E status \in {"OK", "ERROR"} : PrepareInfoVersion(status)
    \/ \E status_code \in {200, 399, 400, 404, 500} :
          PrepareGetDataset(status_code)
    \/ PrepareSave
    \/ PrepareAgain

SpecPrepare == Init /\ [][NextPrepare]_vars

\* C27: prepare() saves the credential, marked as last used, only after all
\* of its earlier steps went well: url and doi are configured, the doi is in
\* its normal form, a token was obtained, get_info_version answered OK and
\* get_dataset answered with a status below 400.  A step that does not go
\* well ends prepare() with an exception, and then no credential is saved.
C27_PrepareSavesLast ==
    prep.pc # "idle" =>
    /\ prep.credential # "none"
       => /\ prep.pc = "done" /\ prep.credential = "lastused"
          /\ prep.url # <<>> /\ prep.doi_in # <<>>
          /\ StartsWith(prep.doi, DoiScheme)
          /\ UrlDoiMatch(DropPrefix(prep.doi, Len(DoiScheme))) = 0
             \/ StartsWith(prep.doi_in, DoiScheme)
          /\ prep.token
          /\ prep.info = "OK"
          /\ prep.status_code \in 1..399
    /\ prep.pc = "failed" <=> prep.exc # "none"
    /\ prep.pc = "failed" => prep.credential = "none"
    /\ prep.pc = "done" => prep.credential = "lastused"
    /\ (prep.url = <<>> \/ (prep.pc # "doi" /\ prep.doi_in = <<>>)
        \/ prep.info \notin {"none", "OK"} \/ prep.status_code >= 400)
       => prep.pc = "failed"

\* the credential is saved for a doi that was configured as a URL
C27_Witness ==
    /\ prep.pc = "done" /\ prep.credential = "lastused"
    /\ UrlDoiMatch(prep.doi_in) > 0
    /\ prep.status_code = 399

\* -------------------------------------------------------------------------
\* The files of older versions
\* -------------------------------------------------------------------------

\* the ids of the replace and delete requests of a verb
MutatedIds(reqs) ==
    {reqs[i].id : i \in {j \in 1..Len(reqs) :
                            reqs[j].op \in {"replace", "delete"}}}

\* C31: no verb requests the replace or the delete of a file id that is not
\* part of the latest version of the dataset on the server: the ids of the
\* replace and delete requests of a verb are ids of the latest version as
\* the verb found it.
C31_NoCrossVersionMutation ==
    [][verb' \in RemoteVerbs
       => MutatedIds(requests') \subseteq LatestIdsOnServer]_vars

\* -------------------------------------------------------------------------
\* The lookup of a path in all versions
\* -------------------------------------------------------------------------

\* the records of the latest version at the (mangled form of) path p
LatestAt(recs, p) ==
    {recs[i].id : i \in {j \in 1..Len(recs) :
                            /\ recs[j].is_latest_version
                            /\ recs[j].path = ODD_mangle_path(p)}}

\* C32: get_fileid_from_path(p, latest_only=False) matches older versions
\* only when the latest version has no match: whenever a record of the
\* latest version has the path p, the id returned is the id of a record of
\* the latest version.
C32_LatestMatchFirst ==
    \A p \in Keys :
        LET W == get_fileid_from_path(World, NetOk, p, FALSE)
        IN  LatestAt(W.file_records.recs, p) # {}
            => W.ret \in LatestAt(W.file_records.recs, p)

\* C33: the listing of all versions is requested lazily: a lookup
\* get_fileid_from_path(p, latest_only=False) requests the version listing
\* only when no record of the latest version matches p; a lookup that the
\* latest version satisfies requests no version listing.
C33_LazyListing ==
    \A p \in Keys :
        LET W == get_fileid_from_path(World, NetOk, p, FALSE)
        IN  AskedVersions(W.requests)
            => get_fileid_from_path(World, NetOk, p, TRUE).ret = None

\* =========================================================================
\* baseremote.py: the record of file ids in the state string of a key.
\* A str is the sequence of its characters.
\* =========================================================================

DecimalDigits == <<"0", "1", "2", "3", "4", "5", "6", "7", "8", "9">>

\* str(i) of an int i >= 0
RECURSIVE str_of(_)
str_of(i) ==
    IF i < 10 THEN <<DecimalDigits[i + 1]>>
    ELSE str_of(i \div 10) \o <<DecimalDigits[(i % 10) + 1]>>

\* int(n) of a str of decimal digits
RECURSIVE int_of(_)
int_of(n) ==
    IF n = <<>> THEN 0
    ELSE 10 * int_of(SubSeq(n, 1, Len(n) - 1))
         + (CHOOSE d \in 0..9 : DecimalDigits[d + 1] = n[Len(n)])

\* n.strip()
RECURSIVE str_strip(_)
str_strip(n) ==
    IF n = <<>> THEN n
    ELSE IF Head(n) = " " THEN str_strip(Tail(n))
    ELSE IF n[Len(n)] = " " THEN str_strip(SubSeq(n, 1, Len(n) - 1))
    ELSE n

\* stored_id.split(','): the list of the tokens between the commas
RECURSIVE str_split(_)
str_split(stored_id) ==
    IF \A i \in 1..Len(stored_id) : stored_id[i] # "," THEN <<stored_id>>
    ELSE LET c == CHOOSE i \in 1..Len(stored_id) :
                    /\ stored_id[i] = ","
                    /\ \A j \in 1..(i - 1) : stored_id[j] # ","
         IN  <<SubSeq(stored_id, 1, c - 1)>>
             \o str_split(SubSeq(stored_id, c + 1, Len(stored_id)))

\* "".join(...): a join that puts nothing between the items
RECURSIVE str_join_nothing(_)
str_join_nothing(items) ==
    IF items = <<>> THEN <<>>
    ELSE Head(items) \o str_join_nothing(Tail(items))

\* ", ".join(...)
RECURSIVE str_join(_)
str_join(items) ==
    IF items = <<>> THEN <<>>
    ELSE IF Len(items) = 1 THEN items[1]
    ELSE Head(items) \o <<",", " ">> \o str_join(Tail(items))

\* _get_annex_fileid_record on the state string that getstate returned
getstate_fileids(stored_id) ==
    LET tokens == str_split(stored_id)
    IN  {int_of(str_strip(tokens[i])) :
            i \in {j \in 1..Len(tokens) : str_strip(tokens[j]) # <<>>}}

\* _set_annex_fileid_record: the string handed to setstate for the file ids
\* in the order in which the set yields them
setstate_string(fileids) ==
    str_join([i \in 1..Len(fileids) |-> str_of(fileids[i])])

\* the file ids of the records
RecordIds == {1, 2, 12}

StoreCall(op, k, ids, state, ret) ==
    keystate' = [state |-> state, op |-> op, key |-> k, ids |-> ids,
                 before |-> keystate.state, ret |-> ret]

\* _set_annex_fileid_record(key, fileids)
SetRecord(k, fileids) ==
    /\ StoreCall("set", k, {fileids[i] : i \in 1..Len(fileids)},
                 [keystate.state EXCEPT ![k] = setstate_string(fileids)], {})
    /\ UNCHANGED <<remoteVars, prep, codec, doi, procs, pair>>

\* the same call once more, the set yielding its items in any order
SetRecordAgain(fileids) ==
    /\ keystate.op = "set"
    /\ keystate.ids = {fileids[i] : i \in 1..Len(fileids)}
    /\ StoreCall("set again", keystate.key, keystate.ids,
                 [keystate.state EXCEPT
                     ![keystate.key] = setstate_string(fileids)], {})
    /\ UNCHANGED <<remoteVars, prep, codec, doi, procs, pair>>

\* _add_annex_fileid_record(key, fileid)
AddRecord(k, fileid) ==
    \E r \in Perms(getstate_fileids(keystate.state[k]) \cup {fileid}) :
        /\ StoreCall("add", k, {fileid},
                     [keystate.state EXCEPT ![k] = setstate_string(r)], {})
        /\ UNCHANGED <<remoteVars, prep, codec, doi, procs, pair>>

\* _remove_annex_fileid_record(key, fileid)
RemoveRecord(k, fileid) ==
    \E r \in Perms(getstate_fileids(keystate.state[k]) \ {fileid}) :
        /\ StoreCall("remove", k, {fileid},
                     [keystate.state EXCEPT ![k] = setstate_string(r)], {})
        /\ UNCHANGED <<remoteVars, prep, codec, doi, procs, pair>>

\* _get_annex_fileid_record(key)
GetRecord(k) ==
    /\ StoreCall("get", k, {}, keystate.state,
                 getstate_fileids(keystate.state[k]))
    /\ UNCHANGED <<remoteVars, prep, codec, doi, procs, pair>>

NextState ==
    \/ \E k \in Keys, S \in SUBSET RecordIds :
          \E fileids \in Perms(S) : SetRecord(k, fileids)
    \/ \E fileids \in UNION {Perms(S) : S \in SUBSET RecordIds} :
          SetRecordAgain(fileids)
    \/ \E k \in Keys, fileid \in RecordIds : AddRecord(k, fileid)
    \/ \E k \in Keys, fileid \in RecordIds : RemoveRecord(k, fileid)
    \/ \E k \in Keys : GetRecord(k)

SpecState == Init /\ [][NextState]_vars

\* the record of a key as a call left it, and as the call found it
RecordNow(k) == getstate_fileids(keystate.state[k])
RecordBefore(k) == getstate_fileids(keystate.before[k])

\* C34: the record of file ids of a key: the empty state is the empty set;
\* after set(K, S) the record of K is exactly S, and setting S once more
\* leaves it at S; add(K, F) leaves the record of K as it was plus F,
\* remove(K, F) as it was without F; get(K) returns the record and changes
\* nothing; no call changes the state of another key.
C34_BindingStore ==
    /\ getstate_fileids(<<>>) = {}
    /\ keystate.op # "none" =>
       /\ \A k \in Keys \ {keystate.key} :
             keystate.state[k] = keystate.before[k]
       /\ keystate.op = "set" => RecordNow(keystate.key) = keystate.ids
       /\ keystate.op = "set again" =>
             /\ RecordNow(keystate.key) = keystate.ids
             /\ RecordNow(keystate.key) = RecordBefore(keystate.key)
       /\ keystate.op = "add" =>
             RecordNow(keystate.key)
                 = RecordBefore(keystate.key) \cup keystate.ids
       /\ keystate.op = "remove" =>
             RecordNow(keystate.key)
                 = RecordBefore(keystate.key) \ keystate.ids
       /\ keystate.op = "get" =>
             /\ keystate.ret = RecordBefore(keystate.key)
             /\ keystate.state = keystate.before

\* an id is removed from a record of three ids that was written in an order
\* in which "1" and "2" follow each other, while the other key has a record
C34_Witness ==
    /\ keystate.op = "remove" /\ keystate.ids = {2}
    /\ keystate.before[keystate.key]
          = <<"1", "2", ",", " ", "1", ",", " ", "2">>
    /\ RecordNow(keystate.key) = {1, 12}
    /\ \E k \in Keys \ {keystate.key} : RecordNow(k) = {2}

\* -------------------------------------------------------------------------
\* The cache and the latest version on the server
\* -------------------------------------------------------------------------

\* the (file id, path) pairs of the records marked is_latest_version
CachedLatestPairs(W) ==
    {<<W.file_records.recs[i].id, W.file_records.recs[i].path>> :
        i \in {j \in 1..Len(W.file_records.recs) :
                  W.file_records.recs[j].is_latest_version}}

\* the file listing of the latest version of the dataset
ServerLatestPairs ==
    {<<LatestFiles[i].id, LatestFiles[i].path>> : i \in 1..Len(LatestFiles)}

\* upload_file, remove_file or rename_file went well, called directly or by
\* STORE or REMOVE
ChangedDataset ==
    \/ /\ verb \in {"upload_file", "remove_file", "rename_file",
                    "rename_file(rename_path)"}
       /\ answer = "SUCCESS"
    \/ /\ verb \in {"STORE", "REMOVE"}
       /\ \E i \in 1..Len(requests) :
             /\ requests[i].op \in {"upload", "replace", "delete"}
             /\ requests[i].status = "ok"

\* C37: after every successful upload_file, remove_file and rename_file the
\* (file id, path) pairs of the records marked is_latest_version are the
\* file listing of the latest version on the server, for the cache as the
\* call left it and for the cache after an all-versions expansion.
C37_CacheTracksServer ==
    ChangedDataset
    => /\ ~file_records.is_None
       /\ \A W \in Views : CachedLatestPairs(W) = ServerLatestPairs

\* -------------------------------------------------------------------------
\* CHECKPRESENT and what the dataset holds
\* -------------------------------------------------------------------------

\* C38: no false negative: a CHECKPRESENT(K) that answers, handled while the
\* latest version of the dataset on the server holds a file at the path of K,
\* answers present, whether ids are bound to K or not.
C38_NoFalseNegative ==
    (/\ verb = "CHECKPRESENT" /\ answer # "FAILURE"
     /\ FilesHavePath(LatestFiles, KeyPath(key)))
    => answer = "PRESENT"

\* C39: present implies retrievable: a RETRIEVE(K) that follows a
\* CHECKPRESENT(K) which answered present does not end as unavailable, and
\* every download it requests is the download of a file id that is part of
\* a version of the dataset on the server, whichever bound id it picks.
C39_PresentRetrievable ==
    [][(/\ verb = "CHECKPRESENT" /\ answer = "PRESENT"
        /\ verb' = "RETRIEVE" /\ key' = key)
       => /\ exc' # "RemoteError"
          /\ \A i \in 1..Len(requests') :
                requests'[i].op = "get_datafile"
                => OnServer(requests'[i].id)]_vars

\* =========================================================================
\* Two runs of the remote on one sequence of STORE and REMOVE verbs of a
\* key, one of them with CHECKPRESENT verbs of the key added
\* =========================================================================

PairKey == CHOOSE k \in Keys : \A j \in Keys : k <= j

\* the remote as it starts to handle a verb
AtVerb(W) ==
    [W EXCEPT !.requests = <<>>, !.exc = "none", !.ret = None, !.retb = FALSE]

\* a new process of the remote
NewProcess(W) ==
    [AtVerb(W) EXCEPT !.file_records = NotLoaded,
                      !.knows_all_versions = FALSE]

PairAfter(a, b, v) ==
    [a |-> a, b |-> b, verb |-> v,
     a_answer |-> IF v = "CHECKPRESENT" THEN PresentAnswer(a)
                  ELSE IF v = "NONE" THEN "NONE" ELSE Answer(a),
     b_answer |-> IF v = "STORE" \/ v = "REMOVE" THEN Answer(b) ELSE "NONE"]

\* the variables that the two runs leave alone
pairRest == <<remoteVars, prep, codec, doi, keystate, procs>>

PairCanStore(W) ==
    /\ W.next_id <= MaxFileId
    /\ ~SrvOutOfLabels(W, None, KeyPath(PairKey))

\* TRANSFER STORE key, handed to both runs
PairStore ==
    /\ PairCanStore(pair.a) /\ PairCanStore(pair.b)
    /\ pair' = PairAfter(transfer_store(AtVerb(pair.a), NetOk, PairKey),
                         transfer_store(AtVerb(pair.b), NetOk, PairKey),
                         "STORE")
    /\ UNCHANGED pairRest

\* REMOVE key, handed to both runs
PairRemove ==
    \E a_order \in Perms(get_annex_fileid_record(pair.a, PairKey)),
       b_order \in Perms(get_annex_fileid_record(pair.b, PairKey)) :
        /\ pair' = PairAfter(remove(AtVerb(pair.a), NetOk, PairKey, a_order),
                             remove(AtVerb(pair.b), NetOk, PairKey, b_order),
                             "REMOVE")
        /\ UNCHANGED pairRest

\* CHECKPRESENT key, handed to run a only
PairCheckPresent ==
    /\ pair' = PairAfter(checkpresent(AtVerb(pair.a), NetOk, PairKey), pair.b,
                         "CHECKPRESENT")
    /\ UNCHANGED pairRest

\* both runs go on in a new process
PairRestart ==
    /\ pair' = PairAfter(NewProcess(pair.a), NewProcess(pair.b), "NONE")
    /\ UNCHANGED pairRest

PublishedAs(W, minor) ==
    LET n == Len(W.released)
        major == IF n = 0 THEN 1
                 ELSE IF minor THEN W.released[n].versionNumber
                 ELSE W.released[n].versionNumber + 1
        minornum == IF n = 0 \/ ~minor THEN 0
                    ELSE W.released[n].versionMinorNumber + 1
    IN  [NewProcess(W) EXCEPT
            !.released = Append(@,
                [versionNumber |-> major, versionMinorNumber |-> minornum,
                 versionState |-> "RELEASED", files |-> W.draft]),
            !.has_draft = FALSE, !.draft = <<>>]

\* the DRAFT of both runs is published, between two processes
PairPublish(minor) ==
    /\ pair.a.has_draft /\ pair.b.has_draft
    /\ Len(pair.a.released) < MaxReleases
    /\ Len(pair.b.released) < MaxReleases
    /\ pair' = PairAfter(PublishedAs(pair.a, minor),
                         PublishedAs(pair.b, minor), "NONE")
    /\ UNCHANGED pairRest

NextPair ==
    \/ PairStore
    \/ PairRemove
    \/ PairCheckPresent
    \/ PairRestart
    \/ \E minor \in BOOLEAN : PairPublish(minor)

SpecPair == Init /\ [][NextPair]_vars

\* C36: CHECKPRESENT is observationally pure: after every STORE and REMOVE
\* of a sequence of such verbs on a key, the answer of the verb, the ids
\* bound to the key and the answer that a final CHECKPRESENT of the key
\* would give are the same in the run that was handed additional
\* CHECKPRESENT verbs of the key earlier and in the run that was not.
C36_CheckPresentPure ==
    pair.verb \in {"STORE", "REMOVE"}
    => /\ pair.a_answer = pair.b_answer
       /\ get_annex_fileid_record(pair.a, PairKey)
             = get_annex_fileid_record(pair.b, PairKey)
       /\ PresentAnswer(checkpresent(AtVerb(pair.a), NetOk, PairKey))
             = PresentAnswer(checkpresent(AtVerb(pair.b), NetOk, PairKey))

\* =========================================================================
\* Two processes of the remote on one dataset.  The host hands the verbs of
\* a key to one process at a time: process k handles key k.  A step of a
\* process is the part of a handler up to and including its next request.
\* =========================================================================

\* the remote object of process k on the dataset as it is now
ProcWorld(k) ==
    [released |-> procs.srv.released, draft |-> procs.srv.draft,
     has_draft |-> procs.srv.has_draft, next_id |-> procs.srv.next_id,
     annex_state |-> procs.srv.annex_state,
     file_records |-> procs.p[k].file_records,
     knows_all_versions |-> procs.p[k].knows_all_versions,
     files_latest |-> NotLoaded, files_old |-> NotLoaded,
     requests |-> <<>>, exc |-> "none", ret |-> None, retb |-> FALSE]

\* the id that the dataset of the process alone has for an id of the shared
\* dataset: the uploads of a process are numbered from 1 there
AloneId(k, fid) ==
    IF fid = None THEN None
    ELSE IF \E n \in 1..Len(procs.mine[k]) : procs.mine[k][n] = fid
    THEN CHOOSE n \in 1..Len(procs.mine[k]) : procs.mine[k][n] = fid
    ELSE 0

\* the variables that the two processes leave alone
procsRest == <<remoteVars, prep, codec, doi, keystate, pair>>

\* process k has made a step that left W; A is the remote alone after the
\* verb, when the step is the first of its verb
ProcAfter(k, W, pc, loc, v, A) ==
    [srv |-> [released |-> W.released, draft |-> W.draft,
              has_draft |-> W.has_draft, next_id |-> W.next_id,
              annex_state |-> W.annex_state],
     p |-> [j \in Keys |->
              IF j = k
              THEN [file_records |-> W.file_records,
                    knows_all_versions |-> W.knows_all_versions,
                    pc |-> IF W.exc # "none" THEN "idle" ELSE pc,
                    loc |-> IF W.exc # "none" \/ pc = "idle" THEN None ELSE loc,
                    verb |-> v,
                    answer |-> IF W.exc # "none" THEN "FAILURE"
                               ELSE IF pc # "idle" THEN "NONE"
                               ELSE IF v = "CHECKPRESENT" THEN PresentAnswer(W)
                               ELSE Answer(W),
                    crossed |-> procs.p[k].pc # "idle" /\ procs.p[k].crossed]
              ELSE [procs.p[j] EXCEPT
                      !.crossed = @ \/ (procs.p[j].pc # "idle"
                                        /\ W.requests # <<>>)]],
     alone |-> IF procs.p[k].pc = "idle"
               THEN [procs.alone EXCEPT ![k] = A] ELSE procs.alone,
     alone_answer |->
        IF procs.p[k].pc # "idle" THEN procs.alone_answer
        ELSE [procs.alone_answer EXCEPT
                 ![k] = IF v = "CHECKPRESENT" THEN PresentAnswer(A)
                        ELSE Answer(A)],
     mine |-> IF W.next_id > procs.srv.next_id
              THEN [procs.mine EXCEPT ![k] = Append(@, procs.srv.next_id)]
              ELSE procs.mine,
     step |-> W.requests]

\* transfer_store up to the upload: the lookup of the id to replace
ProcStoreLookup(k) ==
    /\ procs.p[k].pc = "idle"
    /\ LET W == get_fileid_from_key(ProcWorld(k), NetOk, k, TRUE)
       IN  procs' = ProcAfter(k, W, "store", W.ret, "STORE",
                        transfer_store(AtVerb(procs.alone[k]), NetOk, k))
    /\ UNCHANGED procsRest

\* transfer_store: the upload request of _upload_file
ProcStoreUpload(k) ==
    /\ procs.p[k].pc = "store"
    /\ procs.srv.next_id <= MaxFileId
    /\ ~SrvOutOfLabels(ProcWorld(k), procs.p[k].loc, KeyPath(k))
    /\ LET W1 == upload_file(ProcWorld(k), NetOk, get_remotepath_for_key(k),
                             procs.p[k].loc)
       IN  procs' = IF W1.exc = "HTTPError400duplicate"
                    THEN ProcAfter(k, [W1 EXCEPT !.exc = "none"], "idle", None,
                                   "STORE", procs.alone[k])
                    ELSE ProcAfter(k, W1, "stored", <<procs.p[k].loc, W1.ret>>,
                                   "STORE", procs.alone[k])
    /\ UNCHANGED procsRest

\* transfer_store: _upload_file after its upload, with the question whether
\* the replaced file is released and the update of the record
ProcStoreRecord(k) ==
    /\ procs.p[k].pc = "stored"
    /\ LET replace_id == procs.p[k].loc[1]
           upload_id == procs.p[k].loc[2]
           R == DataverseRemote_is_released_file(ProcWorld(k), replace_id)
           W2 == IF replace_id = None THEN ProcWorld(k)
                 ELSE IF R.exc # "none" \/ R.retb THEN R
                 ELSE remove_annex_fileid_record(R, k, replace_id)
       IN  procs' = ProcAfter(k,
                        IF W2.exc # "none" THEN W2
                        ELSE add_annex_fileid_record(W2, k, upload_id),
                        "idle", None, "STORE", procs.alone[k])
    /\ UNCHANGED procsRest

\* checkpresent makes one request at most
ProcCheckPresent(k) ==
    /\ procs.p[k].pc = "idle"
    /\ procs' = ProcAfter(k, checkpresent(ProcWorld(k), NetOk, k), "idle",
                    None, "CHECKPRESENT",
                    checkpresent(AtVerb(procs.alone[k]), NetOk, k))
    /\ UNCHANGED procsRest

\* transfer_retrieve up to the download: the choice of the file id
ProcRetrieveLookup(k) ==
    /\ procs.p[k].pc = "idle"
    /\ \E pick \in get_annex_fileid_record(ProcWorld(k), k) \cup {None} :
          /\ pick = None <=> get_annex_fileid_record(ProcWorld(k), k) = {}
          /\ LET W1 == get_fileid_from_key(ProcWorld(k), NetOk, k, FALSE)
                 W == IF pick # None THEN ProcWorld(k)
                      ELSE IF W1.exc = "none" /\ W1.ret = None
                      THEN Raise(W1, "RemoteError")
                      ELSE W1
             IN  procs' = ProcAfter(k, W, "retrieve",
                              IF pick # None THEN pick ELSE W1.ret, "RETRIEVE",
                              transfer_retrieve(AtVerb(procs.alone[k]), NetOk, k,
                                                AloneId(k, pick)))
    /\ UNCHANGED procsRest

\* transfer_retrieve: the download
ProcRetrieveDownload(k) ==
    /\ procs.p[k].pc = "retrieve"
    /\ procs' = ProcAfter(k, download_file(ProcWorld(k), NetOk, procs.p[k].loc),
                    "idle", None, "RETRIEVE", procs.alone[k])
    /\ UNCHANGED procsRest

\* remove up to its loop: the ids to remove
ProcRemoveLookup(k) ==
    /\ procs.p[k].pc = "idle"
    /\ \E order \in Perms(get_annex_fileid_record(ProcWorld(k), k)) :
          LET W1 == get_fileid_from_key(ProcWorld(k), NetOk, k, TRUE)
              W == IF order # <<>> THEN ProcWorld(k) ELSE W1
              rm_ids == IF order # <<>> THEN order ELSE <<W1.ret>>
          IN  procs' = ProcAfter(k, W, "remove", rm_ids, "REMOVE",
                           remove(AtVerb(procs.alone[k]), NetOk, k,
                                  [n \in 1..Len(order) |->
                                      AloneId(k, order[n])]))
    /\ UNCHANGED procsRest

\* _remove_file of the next id, up to the listing that the first question
\* to the cache requests
ProcRemoveList(k) ==
    /\ procs.p[k].pc = "remove"
    /\ Head(procs.p[k].loc) # None
    /\ procs.p[k].file_records.is_None
    /\ procs' = ProcAfter(k, file_records_by_fileid(ProcWorld(k), NetOk),
                    "remove", procs.p[k].loc, "REMOVE", procs.alone[k])
    /\ UNCHANGED procsRest

\* _remove_file of the next id up to its delete request; there is nothing
\* more to do for an id that is None or not in the latest version
ProcRemoveFile(k) ==
    /\ procs.p[k].pc = "remove"
    /\ Head(procs.p[k].loc) = None \/ ~procs.p[k].file_records.is_None
    /\ LET rm_id == Head(procs.p[k].loc)
           W1 == has_fileid_in_latest_version(ProcWorld(k), NetOk, rm_id)
           W2 == remove_file(W1, NetOk, rm_id)
           after == IF Len(procs.p[k].loc) = 1 THEN "idle" ELSE "remove"
       IN  procs' = IF rm_id = None
                    THEN ProcAfter(k, ProcWorld(k), after, Tail(procs.p[k].loc),
                                   "REMOVE", procs.alone[k])
                    ELSE IF W1.exc # "none" \/ ~W1.retb
                    THEN ProcAfter(k, W1, after, Tail(procs.p[k].loc),
                                   "REMOVE", procs.alone[k])
                    ELSE IF W2.exc # "none"
                    THEN ProcAfter(k, Raise(W2, "RemoteError"), "idle", None,
                                   "REMOVE", procs.alone[k])
                    ELSE ProcAfter(k, W2, "removed", procs.p[k].loc,
                                   "REMOVE", procs.alone[k])
    /\ UNCHANGED procsRest

\* _remove_file after its delete request, with the question whether the
\* removed file is released; the verb ends after the last id
ProcRemoveRecord(k) ==
    /\ procs.p[k].pc = "removed"
    /\ LET rm_id == Head(procs.p[k].loc)
           W3 == is_released_file(ProcWorld(k), NetOk, rm_id)
       IN  procs' = ProcAfter(k,
                        IF W3.exc # "none" \/ W3.retb THEN W3
                        ELSE remove_annex_fileid_record(W3, k, rm_id),
                        IF Len(procs.p[k].loc) = 1 THEN "idle" ELSE "remove",
                        Tail(procs.p[k].loc), "REMOVE", procs.alone[k])
    /\ UNCHANGED procsRest

\* the host starts a new process for the key
ProcRestart(k) ==
    /\ procs.p[k].pc = "idle"
    /\ procs' = [procs EXCEPT
                    !.p[k] = IdleProcess,
                    !.alone[k] = NewProcess(@),
                    !.alone_answer[k] = "NONE",
                    !.step = <<>>]
    /\ UNCHANGED procsRest

NextProcs ==
    \E k \in Keys :
        \/ ProcStoreLookup(k)
        \/ ProcStoreUpload(k)
        \/ ProcStoreRecord(k)
        \/ ProcCheckPresent(k)
        \/ ProcRetrieveLookup(k)
        \/ ProcRetrieveDownload(k)
        \/ ProcRemoveLookup(k)
        \/ ProcRemoveList(k)
        \/ ProcRemoveFile(k)
        \/ ProcRemoveRecord(k)
        \/ ProcRestart(k)

SpecProcs == Init /\ [][NextProcs]_vars

\* the ids bound to the key of process k, as ids of the dataset of the
\* process alone
ProcFids(k) ==
    {AloneId(k, fid) : fid \in get_annex_fileid_record(ProcWorld(k), k)}

\* C35: without locking, two processes with caches of their own that handle
\* verbs of different keys on one dataset, their requests and state accesses
\* interleaved in any way, each give the answers and end with the bindings
\* that the verbs of the process give when they are handled alone (the file
\* ids taken in the order in which the server handed them to the process).
C35_ProcessesIndependent ==
    \A k \in Keys :
        procs.p[k].pc = "idle"
        => /\ procs.p[k].answer = procs.alone_answer[k]
           /\ ProcFids(k) = get_annex_fileid_record(procs.alone[k], k)

\* both processes ended a verb during which the other made a request: one a
\* STORE that replaced a file, the other a REMOVE that deleted one
C35_Witness ==
    /\ \A k \in Keys : procs.p[k].pc = "idle" /\ procs.p[k].crossed
    /\ \E k \in Keys :
          /\ procs.p[k].verb = "STORE"
          /\ Len(procs.mine[k]) >= 2
    /\ \E k \in Keys :
          /\ procs.p[k].verb = "REMOVE" /\ procs.p[k].answer = "SUCCESS"
          /\ procs.mine[k] # <<>>
          /\ get_annex_fileid_record(ProcWorld(k), k) = {}

\* every step of a process makes one request at most
ProcOneRequest == Len(procs.step) <= 1

====
